---- MODULE Spec2Model ----
(***************************************************************************)
(* Model of wx-filehelper-api: the protocol engine (direct_bot.py), the    *)
(* ingestion loop and the supervision loops (main.py) and the scheduler    *)
(* (processor.py).  One asyncio event loop runs every coroutine, so an     *)
(* action is the code between two suspension points of one coroutine.      *)
(***************************************************************************)
EXTENDS Integers, Sequences, FiniteSets, TLC

VARIABLES
    \* protocol engine (WeChatHelperBot)
    skey, sid, uin, pass_ticket, uuid, is_logged_in,
    msg_cache, seen_msg_ids, seen_msg_ids_order,
    send_msg_ids, send_msg_ids_order,
    state_file,
    \* upstream service: the entries of the chat, the ids it has given and
    \* will give to sent messages
    inbox, issued, outPool,
    \* ingestion loop (background_listener)
    lpc, messages, processed_set, processed_order, sent_buffer,
    \* supervision (stability_state, heartbeat_monitor)
    reconnect_attempts, errors, hpc,
    \* history: the keys dispatched so far and in the running tick, the
    \* last AddMsgList that was normalised to something, and whether a
    \* sync-check has answered loginout since the last login
    dispatched, tickDispatched, lastBatch, authLost,
    \* what the last step did: the key it dispatched, the ids its sync
    \* round normalised, its login poll, its endpoint answer, its
    \* reconnect attempt; the echoes of sent ids its sync round was given
    \* and the answer to its heartbeat sync-check
    dispKey, dispAgain, syncOut, syncEcho, pollObs, lastReply, attempt,
    hbStatus,
    \* the answer to the sync-check of the last step, whoever issued it
    syncStatus,
    \* scheduler (CommandProcessor): the task table as the entries of the
    \* dict in insertion order, the task file, the local clock, and the
    \* scheduler loop with its dict iterator and the task it is running
    tasks, task_file, nAdds, clock,
    spc, today, hm, dirty, itPos, itUsed, itLen, held,
    \* history: the (task, day) pairs run with trigger "schedule", and
    \* whether the last step ran a task a second time on one day
    ran, ranAgain,
    \* message store (MessageStore): the messages table, its sqlite_sequence
    \* entry, the files table and the store's clock
    db_messages, db_seq, db_files, db_now,
    \* history: the row ids save_message has returned so far; what the last
    \* step did on the store: the row id its save_message returned and the
    \* answer to its get_updates
    db_assigned, db_saved, db_out,
    \* trace recorder of the engine: the buffered rows and the rows of the
    \* trace file
    trace_buffer, trace_file,
    \* AUTO_DOWNLOAD of main.py; whether download_message_content returned
    \* true in the last iteration of the ingestion loop
    auto_download, dlOk,
    \* pacing of the ingestion loop: poll_interval, the ticks so far, the
    \* empty ticks in a row, and how the last tick ended
    poll_interval, nTicks, emptyRun, paceObs,
    \* the login UUIDs: how many the login host has issued, and those it
    \* has answered with an expiry code
    uuid_issued, uuid_dead,
    \* PluginLoader: the plugin directory, loaded_plugins, load_errors, the
    \* state of the process that owns the loader, and whether the last
    \* step was a load_all call
    plugins_dir, loaded_plugins, load_errors, loader_pc, loadCalled,
    \* the add_task or delete_task call of the last step, with its arguments
    taskObs,
    \* the session round trip: the session of a running engine, the
    \* document save_session writes, the session of the engine started on
    \* that document, the document it writes, and the stage reached
    engine, session_doc, restarted, session_doc2, session_pc,
    \* the registry of plugin_base: _message_handlers and _handlers_sorted;
    \* what the last step on the registry did
    message_handlers, handlers_sorted, chainObs,
    \* the sends of the HTTP handlers and of the scheduler, taken request
    \* by request: the holder of the engine's lock, where each caller
    \* stands, and the id the upstream gave to the message it is posting
    lock, send_pc, send_id,
    \* process(msg) of the dispatcher and the reply of the ingestion loop,
    \* step by step: where the call stands, the message with the webhook
    \* URL read for it, and what has been done for it so far
    proc_pc, proc_msg, proc_log,
    \* the engine's _raw_by_id with its queue; the ingestion loop seen key
    \* by key: where the tick stands and how many messages of its batch
    \* are left; the containers the last step has cut back to their queues
    raw_by_id, raw_by_id_order, batch_pc, batch_left, pruned,
    \* a client of the SDK: Bot._offset and the update ids its polls have
    \* returned, in order
    sdk_offset, sdk_received,
    \* chat_enabled of the processor, and the caller of the last
    \* _dispatch_text with its arguments
    chat_enabled, dispatchObs,
    \* the commands, routes and hooks of the registry of plugin_base, each
    \* with the module that registered it
    registered

tokenVars == <<skey, sid, uin, pass_ticket>>
cacheVars == <<msg_cache, seen_msg_ids, seen_msg_ids_order, lastBatch>>
sendVars == <<send_msg_ids, send_msg_ids_order, issued, outPool>>
listenerVars == <<lpc, messages, processed_set, processed_order, sent_buffer>>
superVars == <<reconnect_attempts, errors, hpc>>
histVars == <<dispatched, tickDispatched, lastBatch, authLost>>
stepVars == <<dispKey, dispAgain, syncOut, syncEcho, pollObs, lastReply,
              attempt, hbStatus, syncStatus>>

schedVars == <<tasks, task_file, nAdds, clock, spc, today, hm, dirty, itPos,
               itUsed, itLen, held, ran, ranAgain, taskObs>>

storeVars == <<db_messages, db_seq, db_files, db_now, db_assigned, db_saved,
               db_out>>

\* the components beside the engine, the loops and the scheduler
traceVars == <<trace_buffer, trace_file>>

mediaVars == <<auto_download, dlOk>>

\* the store but for the files table
storeRest == <<db_messages, db_seq, db_now, db_assigned, db_saved, db_out>>

paceVars == <<poll_interval, nTicks, emptyRun, paceObs>>

qrVars == <<uuid_issued, uuid_dead>>

\* the components a login poll leaves alone
pluginVars == <<plugins_dir, loaded_plugins, load_errors, loader_pc,
                loadCalled>>

roundVars == <<engine, session_doc, restarted, session_doc2, session_pc>>

chainVars == <<message_handlers, handlers_sorted, chainObs>>

\* the components that share no state with the ones above
flightVars == <<lock, send_pc, send_id>>

procVars == <<proc_pc, proc_msg, proc_log>>

limitedVars == <<raw_by_id, raw_by_id_order, batch_pc, batch_left, pruned>>

sdkVars == <<sdk_offset, sdk_received>>

chatVars == <<chat_enabled, dispatchObs>>

extraVars == <<chainVars, flightVars, procVars, limitedVars, sdkVars,
               chatVars, registered>>

auxRest == <<storeVars, traceVars, mediaVars, paceVars, pluginVars,
             roundVars, extraVars>>

auxVars == <<auxRest, qrVars>>

vars == <<tokenVars, uuid, is_logged_in, cacheVars, sendVars, state_file,
          inbox, listenerVars, superVars, histVars, stepVars, schedVars,
          auxVars>>

(***************************************************************************)
(* Bounds.  The capacities of the engine and of the ingestion loop are     *)
(* scaled down (the source values are given) so that eviction happens.     *)
(* As in the source, a message leaves the window of get_latest_messages    *)
(* before its key can leave processed_order: the newest message of a       *)
(* window of LatestLimit is followed by at most 2 * LatestLimit - 2 other  *)
(* keys while it is in the window, and ProcCap is above that.              *)
(***************************************************************************)
\* _msg_cache maxlen (200 in the source)
CacheCap == 2
\* _seen_msg_ids_order maxlen (5000 in the source)
SeenCap == 1
\* _send_msg_ids_order maxlen (200 in the source)
SendCap == 1
\* processed_order maxlen (5000 in the source)
ProcCap == 3
\* sent_buffer maxlen (40 in the source)
SentBufCap == 1
\* slack before a set is cut back to its queue (100 in the source)
Slack == 0
\* _raw_by_id_order maxlen (500 in the source)
RawCap == 1
\* get_latest_messages(limit=12) in the ingestion loop
LatestLimit == 2
\* longest AddMsgList of one sync round
MaxBatch == 2
\* MAX_RECONNECT_ATTEMPTS (10 by default)
MAX_RECONNECT_ATTEMPTS == 1
\* add_error keeps the last 20 entries
ErrCap == 1

(***************************************************************************)
(* Helpers over sequences.                                                 *)
(***************************************************************************)
Range(s) == {s[i] : i \in 1..Len(s)}

Reverse(s) == [i \in 1..Len(s) |-> s[Len(s) + 1 - i]]

\* the last n elements: list(x)[-n:]
LastN(s, n) == IF Len(s) <= n THEN s ELSE SubSeq(s, Len(s) - n + 1, Len(s))

\* collections.deque(maxlen=cap).append
DequeAppend(q, x, cap) ==
    IF Len(q) >= cap THEN Tail(q) \o <<x>> ELSE q \o <<x>>

RECURSIVE DequeExtend(_, _, _)
DequeExtend(q, xs, cap) ==
    IF xs = <<>> THEN q
    ELSE DequeExtend(DequeAppend(q, Head(xs), cap), Tail(xs), cap)

\* str.strip() on the strings of the model: the blank ids, the blank text
\* and the padded command are the only ones with surrounding white space
Strip(s) ==
    IF s \in {" ", "  "} THEN "" ELSE IF s = " /ping " THEN "/ping" ELSE s

SeqsUpTo(S, n) == UNION {[1..k -> S] : k \in 0..n}

(***************************************************************************)
(* The upstream service.                                                   *)
(***************************************************************************)
\* ids of inbound messages
InIds == {"m1", "m2", "m3"}
\* ids the upstream gives to the messages the engine sends
OutIds == {"s1", "s2", "s3"}
\* the text of every reply and of every API send
ReplyText == "r"
ToUserName == "filehelper"

\* a file name: its stem and its extension (the part after the dot); the
\* empty name stands for a missing one
FileNameOf(stem, ext) == [stem |-> stem, ext |-> ext]
NoName == FileNameOf("", "")

\* ids of inbound image, file and other application messages
MediaIds == {"i1", "i2", "f1", "a1"}

\* the AddMsgList entry the upstream delivers under an id; re-delivery of
\* an id carries the same entry
Item(id) ==
    IF id \in OutIds
    THEN [MsgId |-> id, MsgType |-> 1, FromUserName |-> "me",
          ToUserName |-> ToUserName, Content |-> ReplyText,
          AppMsgType |-> 0, FileName |-> NoName]
    ELSE IF id = "m1"
    THEN [MsgId |-> id, MsgType |-> 1, FromUserName |-> "me",
          ToUserName |-> ToUserName, Content |-> "a",
          AppMsgType |-> 0, FileName |-> NoName]
    ELSE IF id = "m2"
    THEN [MsgId |-> id, MsgType |-> 1, FromUserName |-> ToUserName,
          ToUserName |-> "me", Content |-> ReplyText,
          AppMsgType |-> 0, FileName |-> NoName]
    ELSE IF id = "x1"
    THEN [MsgId |-> id, MsgType |-> 51, FromUserName |-> "me",
          ToUserName |-> ToUserName, Content |-> "",
          AppMsgType |-> 0, FileName |-> NoName]
    ELSE IF id = "g1"
    THEN [MsgId |-> id, MsgType |-> 1, FromUserName |-> "other",
          ToUserName |-> "me", Content |-> "a",
          AppMsgType |-> 0, FileName |-> NoName]
    ELSE IF id = "i1"
    THEN [MsgId |-> id, MsgType |-> 3, FromUserName |-> "me",
          ToUserName |-> ToUserName, Content |-> "",
          AppMsgType |-> 0, FileName |-> NoName]
    ELSE IF id = "i2"
    THEN [MsgId |-> id, MsgType |-> 3, FromUserName |-> "me",
          ToUserName |-> ToUserName, Content |-> "",
          AppMsgType |-> 0, FileName |-> FileNameOf("pic", "")]
    ELSE IF id = "f1"
    THEN [MsgId |-> id, MsgType |-> 49, FromUserName |-> "me",
          ToUserName |-> ToUserName, Content |-> "",
          AppMsgType |-> 6, FileName |-> FileNameOf("doc", "txt")]
    ELSE IF id = "f2"
    THEN \* another file message with the file name of f1
         [MsgId |-> id, MsgType |-> 49, FromUserName |-> "me",
          ToUserName |-> ToUserName, Content |-> "",
          AppMsgType |-> 6, FileName |-> FileNameOf("doc", "txt")]
    ELSE IF id = "a1"
    THEN [MsgId |-> id, MsgType |-> 49, FromUserName |-> "me",
          ToUserName |-> ToUserName, Content |-> "",
          AppMsgType |-> 5, FileName |-> NoName]
    ELSE IF id = "  "
    THEN \* a blank id with a blank text
         [MsgId |-> id, MsgType |-> 1, FromUserName |-> "me",
          ToUserName |-> ToUserName, Content |-> " ",
          AppMsgType |-> 0, FileName |-> NoName]
    ELSE [MsgId |-> id, MsgType |-> 1, FromUserName |-> "me",
          ToUserName |-> ToUserName, Content |-> "c",
          AppMsgType |-> 0, FileName |-> NoName]

\* what a sync round can deliver: entries of the chat and echoes of the
\* messages sent so far
Deliverable == inbox \cup issued

AddMsgLists == {l \in SeqsUpTo(Deliverable, MaxBatch) :
                   \A i, j \in 1..Len(l) : i # j => l[i] # l[j]}

(***************************************************************************)
(* WeChatHelperBot: bounded sets, normalisation, sync.                     *)
(***************************************************************************)
\* _add_to_limited_set without "s.add(value)"
AddToLimitedSetNoAdd(s, order, value, cap) ==
    [s |-> s, order |-> DequeAppend(order, value, cap)]

\* _add_to_limited_set(s, order, value) with order.maxlen = cap
AddToLimitedSet(s, order, value, cap) ==
    IF value \in s THEN [s |-> s, order |-> order]
    ELSE LET s1 == s \cup {value}
             o1 == DequeAppend(order, value, cap)
         IN  [s |-> IF Cardinality(s1) > cap + Slack
                    THEN s1 \cap Range(o1) ELSE s1,
              order |-> o1]

\* the normalized message of an entry, and whether there is one;
\* file_name is the empty name where the dict has no such key
NormalizeOne(item) ==
    IF item.MsgType = 1
    THEN [id |-> item.MsgId, type |-> "text", text |-> item.Content,
          file_name |-> NoName,
          is_mine |-> (item.FromUserName # ToUserName)]
    ELSE IF item.MsgType = 3
    THEN [id |-> item.MsgId, type |-> "image", text |-> "[Image]",
          file_name |-> IF item.FileName # NoName THEN item.FileName
                        ELSE FileNameOf("img_" \o item.MsgId, "jpg"),
          is_mine |-> (item.FromUserName # ToUserName)]
    ELSE [id |-> item.MsgId, type |-> "file", text |-> "[File]",
          file_name |-> IF item.FileName # NoName THEN item.FileName
                        ELSE FileNameOf("file_" \o item.MsgId, ""),
          is_mine |-> (item.FromUserName # ToUserName)]

IsNormalized(item) ==
    \/ item.MsgType = 1
    \/ item.MsgType = 3
    \/ item.MsgType = 49 /\ item.AppMsgType = 6

\* _normalize_messages: acc = [out, s, order]
RECURSIVE NormalizeMessages(_, _, _)
NormalizeMessages(list, acc, sent) ==
    IF list = <<>> THEN acc
    ELSE LET item == Item(Head(list))
             msg_id == item.MsgId
             skip == \/ msg_id = ""
                     \/ msg_id \in acc.s
                     \/ msg_id \in sent
                     \/ /\ item.FromUserName # ToUserName
                        /\ item.ToUserName # ToUserName
             added == AddToLimitedSet(acc.s, acc.order, msg_id, SeenCap)
             next == IF skip THEN acc
                     ELSE [out |-> IF IsNormalized(item)
                                   THEN Append(acc.out, NormalizeOne(item))
                                   ELSE acc.out,
                           s |-> added.s, order |-> added.order]
         IN  NormalizeMessages(Tail(list), next, sent)

Normalized(list) ==
    NormalizeMessages(list, [out |-> <<>>, s |-> seen_msg_ids,
                             order |-> seen_msg_ids_order], send_msg_ids)

HasAuth == skey # "" /\ sid # "" /\ uin # "" /\ pass_ticket # ""

\* the outcomes of _synccheck: without skey, sid and uin no request is made
SyncCheckResults ==
    IF skey # "" /\ sid # "" /\ uin # ""
    THEN {"wait", "hasMsg", "loginout", "resync"}
    ELSE {"loginout"}

Ids(out) == [i \in 1..Len(out) |-> out[i].id]



\* the session document save_session writes
SessionDoc == [skey |-> skey, sid |-> sid, uin |-> uin,
               pass_ticket |-> pass_ticket, uuid |-> uuid]
NoFile == [skey |-> "none"]

\* responses of webwxsync: a transport error or Ret # 0, or an AddMsgList
SyncResponses == {<<"fail">>} \cup {<<"ok", l>> : l \in AddMsgLists}

\* _webwxsync
Webwxsync(resp) ==
    IF resp[1] = "fail"
    THEN /\ UNCHANGED cacheVars
         /\ syncOut' = <<>>
         /\ syncEcho' = {}
    ELSE LET n == Normalized(resp[2])
         IN  /\ msg_cache' = DequeExtend(msg_cache, n.out, CacheCap)
             /\ syncEcho' = Range(resp[2]) \cap send_msg_ids
             /\ seen_msg_ids' = n.s
             /\ seen_msg_ids_order' = n.order
             /\ syncOut' = Ids(n.out)
             /\ lastBatch' = IF n.out # <<>> THEN Ids(n.out) ELSE lastBatch

NoSync == UNCHANGED cacheVars /\ syncOut' = <<>> /\ syncEcho' = {}

\* the next id the upstream gives to a sent message
FreshIds == IF outPool # <<>> THEN {Head(outPool)} ELSE {}

\* responses of _post_message: None (transport error or Ret # 0), or the
\* response data with its MsgID, which may be absent
PostResponses == {<<"none">>, <<"data", "">>} \cup
                 {<<"data", id>> : id \in FreshIds}

\* the tail of send_text and send_file: the response of _post_message and
\* the self-sent set
PostMessage(ok) ==
    \E resp \in PostResponses :
      IF resp[1] = "none"
      THEN ok = FALSE /\ UNCHANGED sendVars
      ELSE LET msg_id == resp[2]
               added == AddToLimitedSet(send_msg_ids, send_msg_ids_order,
                                        msg_id, SendCap)
           IN  /\ ok = TRUE
               /\ issued' = IF msg_id # "" THEN issued \cup {msg_id}
                            ELSE issued
               /\ outPool' = IF msg_id # "" THEN Tail(outPool) ELSE outPool
               /\ send_msg_ids' =
                    IF msg_id # "" THEN added.s ELSE send_msg_ids
               /\ send_msg_ids_order' =
                    IF msg_id # "" THEN added.order ELSE send_msg_ids_order

\* the engine's lock when no one holds it
NoHolder == "none"

\* send_text(message): check_login_status(poll=False), then the post under
\* the lock, which is taken when it is free; ok is the value returned
SendText(message, ok) ==
    IF message = ""
    THEN /\ ok = FALSE
         /\ UNCHANGED <<is_logged_in, sendVars>>
    ELSE IF ~HasAuth
    THEN /\ ok = FALSE
         /\ is_logged_in' = FALSE
         /\ UNCHANGED sendVars
    ELSE /\ lock = NoHolder
         /\ is_logged_in' = TRUE
         /\ PostMessage(ok)

\* the limit of send_file on the size of a file, in bytes
FileSizeLimit == 25 * 1024 * 1024

\* path.stat().st_size of the files sent
FileSizes == {FileSizeLimit - 1, FileSizeLimit, FileSizeLimit + 1}

\* send_file(file_path) for a file that exists: the size limit, the upload
\* and the post; up tells whether a request went upstream
SendFile(file_size, ok, up) ==
    IF ~HasAuth
    THEN /\ ok = FALSE
         /\ up = FALSE
         /\ is_logged_in' = FALSE
         /\ UNCHANGED sendVars
    ELSE /\ is_logged_in' = TRUE
         /\ IF file_size > FileSizeLimit
            THEN ok = FALSE /\ up = FALSE /\ UNCHANGED sendVars
            ELSE /\ up = TRUE
                 /\ \/ \* _webwxuploadmedia returns no media id
                       ok = FALSE /\ UNCHANGED sendVars
                    \/ PostMessage(ok)

(***************************************************************************)
(* Login: _poll_login_once, _complete_login, _webwxinit and                *)
(* check_login_status.                                                     *)
(***************************************************************************)
Tokens(a, b, c, d) == [skey |-> a, sid |-> b, uin |-> c, pass_ticket |-> d]
NoTokens == Tokens("", "", "", "")

\* what the tags skey, wxsid, wxuin and pass_ticket of a newloginpage
\* answer can hold: all four, all but pass_ticket, skey alone, none
XmlAnswers == {Tokens("tok", "tok", "tok", "tok"),
               Tokens("tok", "tok", "tok", ""),
               Tokens("tok", "", "", ""),
               NoTokens}

AllPresent(t) == t.skey # "" /\ t.sid # "" /\ t.uin # "" /\ t.pass_ticket # ""

PollResp(code, redirect, page, xml, init) ==
    [code |-> code, redirect |-> redirect, page |-> page, xml |-> xml,
     init |-> init]

\* answers to one login poll: a transport error (page "transport"), a code
\* without redirect_uri, or code 200 with a redirect_uri followed by the
\* answers of newloginpage (an error, or the four tags) and of webwxinit
LoginPollResponses ==
    {PollResp(0, FALSE, "transport", NoTokens, FALSE)} \cup
    {PollResp(c, FALSE, "none", NoTokens, FALSE) :
        c \in {0, 200, 201, 400, 408, 500}} \cup
    {PollResp(200, TRUE, "error", NoTokens, FALSE)} \cup
    {PollResp(200, TRUE, "xml", t, i) : t \in XmlAnswers, i \in BOOLEAN}

NoPoll == [code |-> -1, redirect |-> FALSE, complete |-> FALSE,
           init |-> FALSE, logged |-> FALSE, ret |-> "none",
           answered |-> FALSE, uuid |-> ""]

\* "elif code in {400, 500, 0}"
ExpiryCodes == {400, 500, 0}

\* the login host keeps answering a UUID it has expired with an expiry
\* code
PollAnswers ==
    {r \in LoginPollResponses : uuid \in uuid_dead => r.code \in ExpiryCodes}

SetTokens(t) ==
    /\ skey' = t.skey
    /\ sid' = t.sid
    /\ uin' = t.uin
    /\ pass_ticket' = t.pass_ticket

\* the part of check_login_status after the cached-token part: one login
\* poll if poll is set and a UUID is held.  ret is "true", "false" or
\* "raise"; u is the UUID held afterwards; lost is the value authLost
\* takes unless check_login_status returns true; l0 is is_logged_in at the
\* poll
PollLogin(poll, ret, u, lost, l0) ==
    IF ~(poll /\ uuid # "")
    THEN /\ is_logged_in' = FALSE
         /\ ret = "false"
         /\ u = uuid
         /\ authLost' = lost
         /\ pollObs' = NoPoll
         /\ UNCHANGED <<tokenVars, state_file>>
    ELSE \E r \in PollAnswers :
           LET obs(logged, result) ==
                   [code |-> r.code, redirect |-> r.redirect,
                    complete |-> AllPresent(r.xml), init |-> r.init,
                    logged |-> logged, ret |-> result,
                    answered |-> r.page # "transport", uuid |-> u]
           IN
           IF r.code # 200
           THEN \* _poll_login_once returns a code other than 200
                /\ u = IF r.page # "transport" /\ r.code \in ExpiryCodes
                       THEN "" ELSE uuid
                /\ is_logged_in' = FALSE
                /\ ret = "false"
                /\ authLost' = lost
                /\ pollObs' = obs(FALSE, "false")
                /\ UNCHANGED <<tokenVars, state_file>>
           ELSE IF ~r.redirect
           THEN \* code 200 without redirect_uri: _complete_login is skipped
                /\ u = uuid
                /\ is_logged_in' = TRUE
                /\ ret = "true"
                /\ authLost' = FALSE
                /\ pollObs' = obs(TRUE, "true")
                /\ state_file' = SessionDoc
                /\ UNCHANGED tokenVars
           ELSE IF r.page = "error"
           THEN \* newloginpage fails: raise_for_status raises
                /\ u = uuid
                /\ ret = "raise"
                /\ authLost' = lost
                /\ is_logged_in' = l0
                /\ pollObs' = obs(l0, "raise")
                /\ UNCHANGED <<tokenVars, state_file>>
           ELSE IF ~AllPresent(r.xml)
           THEN \* the tokens are assigned, then RuntimeError is raised
                /\ u = uuid
                /\ SetTokens(r.xml)
                /\ ret = "raise"
                /\ authLost' = lost
                /\ is_logged_in' = l0
                /\ pollObs' = obs(l0, "raise")
                /\ UNCHANGED state_file
           ELSE \* _complete_login sets is_logged_in = ok, then
                \* check_login_status sets it after the code 200
                /\ u = uuid
                /\ SetTokens(r.xml)
                /\ is_logged_in' = TRUE
                /\ ret = "true"
                /\ authLost' = FALSE
                /\ pollObs' = obs(TRUE, "true")
                /\ state_file' = r.xml @@ [uuid |-> uuid]

\* check_login_status(poll), entered with is_logged_in = l0.  The network
\* calls it awaits are taken with their answers in one step.
CheckLoginStatusU(poll, ret, u, l0) ==
    IF HasAuth /\ ~poll
    THEN /\ is_logged_in' = TRUE
         /\ ret = "true"
         /\ u = uuid
         /\ NoSync
         /\ pollObs' = NoPoll
         /\ syncStatus' = "none"
         /\ UNCHANGED <<tokenVars, state_file, authLost>>
    ELSE IF HasAuth
    THEN \E status \in SyncCheckResults :
           /\ syncStatus' = status
           /\ IF status = "hasMsg"
              THEN /\ \E resp \in SyncResponses : Webwxsync(resp)
                   /\ is_logged_in' = TRUE
                   /\ ret = "true"
                   /\ u = uuid
                   /\ authLost' = FALSE
                   /\ pollObs' = NoPoll
                   /\ UNCHANGED <<tokenVars, state_file>>
              ELSE IF status = "wait"
              THEN /\ NoSync
                   /\ is_logged_in' = TRUE
                   /\ ret = "true"
                   /\ u = uuid
                   /\ authLost' = FALSE
                   /\ pollObs' = NoPoll
                   /\ UNCHANGED <<tokenVars, state_file>>
              ELSE /\ NoSync
                   /\ PollLogin(poll, ret, u,
                                authLost \/ status = "loginout", l0)
    ELSE /\ NoSync
         /\ syncStatus' = "none"
         /\ PollLogin(poll, ret, u, authLost, l0)

\* the UUIDs the login host issues in one run
MaxUuids == 2

\* the n-th UUID of the login host
UuidOf(n) == "u" \o ToString(n)

Uuids == {""} \cup {UuidOf(n) : n \in 1..(MaxUuids + 1)}

\* the UUIDs answered with an expiry code, after the poll of this step
DeadAfterPoll ==
    IF pollObs'.answered /\ pollObs'.code \in ExpiryCodes
    THEN uuid_dead \cup {uuid}
    ELSE uuid_dead

CheckLoginStatus(poll, ret) ==
    /\ \E u \in Uuids :
         CheckLoginStatusU(poll, ret, u, is_logged_in) /\ uuid' = u
    /\ uuid_dead' = DeadAfterPoll
    /\ UNCHANGED uuid_issued

Returns == {"true", "false", "raise"}

\* _load_session: nothing is read when the file does not exist
LoadSession ==
    IF state_file = NoFile
    THEN UNCHANGED <<tokenVars, uuid>>
    ELSE /\ SetTokens(state_file)
         /\ uuid' = state_file.uuid

\* add_error: the ring keeps the last ErrCap entries
AddError(ring, error) ==
    LET r == Append(ring, error)
    IN  IF Len(r) > ErrCap THEN SubSeq(r, Len(r) - ErrCap + 1, Len(r)) ELSE r

(***************************************************************************)
(* The ingestion loop: background_listener.                                *)
(***************************************************************************)
NoReply == [endpoint |-> "none", code |-> 0, upstream |-> FALSE,
            lost |-> FALSE, size |-> -1]

\* a step without dispatch, without sync round and login poll, without
\* endpoint answer, without reconnect attempt
NoDispatch == dispKey' = "" /\ dispAgain' = FALSE /\ UNCHANGED dispatched
NoEngineCall == NoSync /\ pollObs' = NoPoll /\ syncStatus' = "none"
NoAnswer == lastReply' = NoReply
NoAttempt == attempt' = "none" /\ hbStatus' = "none"

\* unique_key = msg_id or content
UniqueKey(msg) ==
    IF Strip(msg.id) # "" THEN Strip(msg.id) ELSE Strip(msg.text)

\* a tick starts while not logged in: check_login_status(poll=True), and
\* the reconnect counter is reset when the login is restored
L_Login ==
    /\ lpc = "sleep"
    /\ ~is_logged_in
    /\ \E ret \in Returns :
         /\ CheckLoginStatus(TRUE, ret)
         /\ IF ret = "raise"
            THEN /\ errors' = AddError(errors, "listener")
                 /\ lpc' = "sleep"
                 /\ UNCHANGED reconnect_attempts
            ELSE /\ reconnect_attempts' =
                      IF is_logged_in' THEN 0 ELSE reconnect_attempts
                 /\ lpc' = "enter"
                 /\ UNCHANGED errors
    /\ attempt' = "listener"
    /\ hbStatus' = "none"
    /\ NoDispatch
    /\ NoAnswer
    /\ UNCHANGED <<sendVars, inbox, messages, processed_set, processed_order,
                   sent_buffer, hpc, tickDispatched>>
    /\ UNCHANGED <<schedVars, auxRest>>

\* "if wechat_bot.is_logged_in": get_latest_messages is entered and runs
\* up to its sync-check request
L_Enter ==
    /\ lpc = "enter" \/ (lpc = "sleep" /\ is_logged_in)
    /\ IF ~is_logged_in
       THEN lpc' = "sleep" /\ UNCHANGED <<is_logged_in, messages>>
       ELSE IF ~HasAuth
       THEN lpc' = "iter" /\ is_logged_in' = FALSE /\ messages' = <<>>
       ELSE lpc' = "fetch" /\ UNCHANGED <<is_logged_in, messages>>
    /\ NoDispatch
    /\ NoEngineCall
    /\ NoAnswer
    /\ NoAttempt
    /\ UNCHANGED <<tokenVars, uuid, sendVars, state_file, inbox,
                   processed_set, processed_order, sent_buffer, superVars,
                   tickDispatched, authLost>>
    /\ UNCHANGED <<schedVars, auxVars>>

\* the rest of get_latest_messages(limit=12): the answer of the sync-check,
\* the sync round, and the slice the loop iterates in reverse
L_Fetch ==
    /\ lpc = "fetch"
    /\ \E status \in SyncCheckResults :
         /\ syncStatus' = status
         /\ IF status = "hasMsg"
            THEN /\ \E resp \in SyncResponses : Webwxsync(resp)
                 /\ messages' = Reverse(LastN(msg_cache', LatestLimit))
                 /\ UNCHANGED <<is_logged_in, authLost>>
            ELSE IF status = "loginout"
            THEN /\ NoSync
                 /\ is_logged_in' = FALSE
                 /\ authLost' = TRUE
                 /\ messages' = <<>>
            ELSE /\ NoSync
                 /\ messages' = Reverse(LastN(msg_cache, LatestLimit))
                 /\ UNCHANGED <<is_logged_in, authLost>>
    /\ lpc' = "iter"
    /\ tickDispatched' = {}
    /\ pollObs' = NoPoll
    /\ NoDispatch
    /\ NoAnswer
    /\ NoAttempt
    /\ UNCHANGED <<tokenVars, uuid, sendVars, state_file, inbox,
                   processed_set, processed_order, sent_buffer, superVars>>
    /\ UNCHANGED <<schedVars, auxVars>>

Dispatched(key) ==
    /\ dispKey' = key
    /\ dispAgain' = (key \in dispatched)
    /\ dispatched' = dispatched \cup {key}
    /\ tickDispatched' = tickDispatched \cup {key}

\* the name under which the ingestion loop saves the content of an image
\* or file message: the message's file_name, for want of it "download_"
\* and the head of the id; an image name without a dot gets ".jpg"
SaveName(msg) ==
    LET given == IF msg.file_name # NoName THEN msg.file_name
                 ELSE FileNameOf("download_" \o Strip(msg.id), "")
    IN IF msg.type = "image" /\ given.ext = ""
       THEN FileNameOf(given.stem, "jpg")
       ELSE given

DOWNLOAD_DIR == "downloads"

\* get_file_save_path(file_name)
GetFileSavePath(file_name) == <<DOWNLOAD_DIR, file_name>>

\* MessageStore.save_file without the INSERT
SaveFileSkipped(files, row) == files

\* MessageStore.save_file: rows that differ in id and created_at only are
\* one row here
SaveFile(files, row) == files \cup {row}

\* the test on the recent-reply ring without the ring
RecentlySentNever(content, buffer) == FALSE

\* "if content and content in sent_buffer"
RecentlySent(content, buffer) == content # "" /\ content \in Range(buffer)

\* one iteration of "for msg in reversed(messages)"; process(msg) is the
\* dispatch event, what the handlers do to the messages table is left out
L_Msg ==
    /\ lpc = "iter"
    /\ messages # <<>>
    /\ LET msg == Head(messages)
           content == Strip(msg.text)
           msg_id == Strip(msg.id)
           unique_key == UniqueKey(msg)
           wants == auto_download /\ msg.type \in {"image", "file"}
           \* download_message_content runs check_login_status(poll=False)
           li == IF wants THEN HasAuth ELSE is_logged_in
           row == [msg_id |-> msg_id, file_name |-> SaveName(msg),
                   file_path |-> GetFileSavePath(SaveName(msg))]
       IN
       IF unique_key = "" \/ unique_key \in processed_set
       THEN /\ messages' = Tail(messages)
            /\ NoDispatch
            /\ dlOk' = FALSE
            /\ UNCHANGED <<lpc, processed_set, processed_order, sent_buffer,
                           is_logged_in, sendVars, errors, tickDispatched,
                           db_files>>
       ELSE /\ processed_set' = processed_set \cup {unique_key}
            /\ processed_order' =
                  DequeAppend(processed_order, unique_key, ProcCap)
            /\ IF RecentlySent(content, sent_buffer)
               THEN /\ messages' = Tail(messages)
                    /\ NoDispatch
                    /\ dlOk' = FALSE
                    /\ UNCHANGED <<lpc, sent_buffer, is_logged_in, sendVars,
                                   errors, tickDispatched, db_files>>
               ELSE \E success, saved \in BOOLEAN :
                    \* the download succeeds only for a message whose raw
                    \* entry is found under its id, with the tokens held
                    /\ success => (wants /\ HasAuth /\ msg_id # "")
                    /\ saved \/ success
                    /\ dlOk' = success
                    /\ IF ~saved
                       THEN \* save_file raises: the tick is abandoned
                            /\ errors' = AddError(errors, "listener")
                            /\ lpc' = "sleep"
                            /\ messages' = <<>>
                            /\ is_logged_in' = li
                            /\ NoDispatch
                            /\ UNCHANGED <<sent_buffer, sendVars,
                                           tickDispatched, db_files>>
                       ELSE \* command_processor.process(msg), then the reply
                            /\ db_files' = IF success
                                           THEN SaveFile(db_files, row)
                                           ELSE db_files
                            /\ Dispatched(unique_key)
                            /\ \/ \* process raises: the tick is abandoned
                                  /\ errors' = AddError(errors, "listener")
                                  /\ lpc' = "sleep"
                                  /\ messages' = <<>>
                                  /\ is_logged_in' = li
                                  /\ UNCHANGED <<sent_buffer, sendVars>>
                               \/ \* no reply
                                  /\ messages' = Tail(messages)
                                  /\ is_logged_in' = li
                                  /\ UNCHANGED <<lpc, sent_buffer, sendVars,
                                                 errors>>
                               \/ \* a reply, sent through the engine
                                  /\ \E ok \in BOOLEAN :
                                       /\ SendText(ReplyText, ok)
                                       /\ sent_buffer' =
                                            IF ok
                                            THEN DequeAppend(sent_buffer,
                                                     ReplyText, SentBufCap)
                                            ELSE sent_buffer
                                  /\ messages' = Tail(messages)
                                  /\ UNCHANGED <<lpc, errors>>
    /\ NoEngineCall
    /\ NoAnswer
    /\ NoAttempt
    /\ UNCHANGED <<tokenVars, uuid, state_file, inbox, reconnect_attempts,
                   hpc, authLost>>
    /\ UNCHANGED <<schedVars, storeRest, traceVars, auto_download, paceVars,
                   qrVars, pluginVars, roundVars, extraVars>>

\* "if len(processed_set) > len(processed_order) + 100:
\*      processed_set = set(processed_order)"
PruneProcessedDropAll(set, order) ==
    IF Cardinality(set) > Len(order) + Slack THEN {} ELSE set

PruneProcessed(set, order) ==
    IF Cardinality(set) > Len(order) + Slack THEN Range(order) ELSE set

\* after the loop: processed_set is rebuilt from processed_order when it
\* has outgrown it by more than the slack
L_End ==
    /\ lpc = "iter"
    /\ messages = <<>>
    /\ processed_set' = PruneProcessed(processed_set, processed_order)
    /\ lpc' = "sleep"
    /\ NoDispatch
    /\ NoEngineCall
    /\ NoAnswer
    /\ NoAttempt
    /\ UNCHANGED <<tokenVars, uuid, is_logged_in, sendVars, state_file,
                   inbox, messages, processed_order, sent_buffer, superVars,
                   tickDispatched, authLost>>
    /\ UNCHANGED <<schedVars, auxVars>>

(***************************************************************************)
(* Supervision: heartbeat_monitor and periodic_session_saver.              *)
(***************************************************************************)
\* the heartbeat wakes up; logged in, it issues its sync-check
HbWake ==
    /\ hpc = "sleep"
    /\ is_logged_in
    /\ hpc' = "synccheck"
    /\ NoDispatch
    /\ NoEngineCall
    /\ NoAnswer
    /\ NoAttempt
    /\ UNCHANGED <<tokenVars, uuid, is_logged_in, sendVars, state_file,
                   inbox, listenerVars, reconnect_attempts, errors,
                   tickDispatched, authLost>>
    /\ UNCHANGED <<schedVars, auxVars>>

\* "if reconnect_attempts < MAX_RECONNECT_ATTEMPTS"
AfterLoginoutStrict(n) ==
    IF n < MAX_RECONNECT_ATTEMPTS THEN "delay" ELSE "sleep"

\* "if stability_state["reconnect_attempts"] <= MAX_RECONNECT_ATTEMPTS":
\* the reconnect follows, or the error entry
AfterLoginout(n) ==
    IF n <= MAX_RECONNECT_ATTEMPTS THEN "delay" ELSE "sleep"

\* the answer of the sync-check; the counter is capped for the check
HbCheck ==
    /\ hpc = "synccheck"
    /\ \E status \in SyncCheckResults :
         /\ hbStatus' = status
         /\ syncStatus' = status
         /\ IF status = "loginout"
            THEN /\ reconnect_attempts <= MAX_RECONNECT_ATTEMPTS + 1
                 /\ is_logged_in' = FALSE
                 /\ authLost' = TRUE
                 /\ reconnect_attempts' = reconnect_attempts + 1
                 /\ hpc' = AfterLoginout(reconnect_attempts')
                 /\ errors' = IF hpc' = "delay" THEN errors
                              ELSE AddError(errors, "max_reconnect")
            ELSE /\ hpc' = "sleep"
                 /\ UNCHANGED <<is_logged_in, authLost, reconnect_attempts,
                                errors>>
    /\ attempt' = "none"
    /\ NoDispatch
    /\ NoSync
    /\ pollObs' = NoPoll
    /\ NoAnswer
    /\ UNCHANGED <<tokenVars, uuid, sendVars, state_file, inbox,
                   listenerVars, tickDispatched>>
    /\ UNCHANGED <<schedVars, auxVars>>

\* after RECONNECT_DELAY: _load_session
HbReload ==
    /\ hpc = "delay"
    /\ LoadSession
    /\ hpc' = "relogin"
    /\ NoDispatch
    /\ NoEngineCall
    /\ NoAnswer
    /\ NoAttempt
    /\ UNCHANGED <<is_logged_in, sendVars, state_file, inbox, listenerVars,
                   reconnect_attempts, errors, tickDispatched, authLost>>
    /\ UNCHANGED <<schedVars, auxVars>>

\* then check_login_status(poll=True); an exception is recorded
HbRelogin ==
    /\ hpc = "relogin"
    /\ \E ret \in Returns :
         /\ CheckLoginStatus(TRUE, ret)
         /\ errors' = IF ret = "raise" THEN AddError(errors, "heartbeat")
                      ELSE errors
    /\ hpc' = "sleep"
    /\ attempt' = "heartbeat"
    /\ hbStatus' = "none"
    /\ NoDispatch
    /\ NoAnswer
    /\ UNCHANGED <<sendVars, inbox, listenerVars, reconnect_attempts,
                   tickDispatched>>
    /\ UNCHANGED <<schedVars, auxRest>>

\* periodic_session_saver
SessionSaver ==
    /\ is_logged_in
    /\ state_file' = SessionDoc
    /\ NoDispatch
    /\ NoEngineCall
    /\ NoAnswer
    /\ NoAttempt
    /\ UNCHANGED <<tokenVars, uuid, is_logged_in, sendVars, inbox,
                   listenerVars, superVars, tickDispatched, authLost>>
    /\ UNCHANGED <<schedVars, auxVars>>

(***************************************************************************)
(* HTTP endpoints.                                                         *)
(***************************************************************************)
Unauthorized(endpoint) ==
    [endpoint |-> endpoint, code |-> 401, upstream |-> FALSE,
     lost |-> authLost, size |-> -1]

\* the answer of GET /wechat/qr: 200 with the image of the QR code, 200
\* with the text "Already logged in", or 500
QrReply(code, image) ==
    [endpoint |-> "qr", code |-> code, upstream |-> image, lost |-> FALSE,
     size |-> -1]

\* POST /bot/sendMessage
ApiSendMessage ==
    /\ IF ~HasAuth
       THEN \* check_login_status(poll=False) is false
            /\ is_logged_in' = FALSE
            /\ lastReply' = Unauthorized("sendMessage")
            /\ UNCHANGED sendVars
       ELSE \E ok \in BOOLEAN :
              /\ SendText(ReplyText, ok)
              /\ lastReply' = [endpoint |-> "sendMessage",
                               code |-> IF ok THEN 200 ELSE 0,
                               upstream |-> TRUE, lost |-> authLost,
                               size |-> -1]
    /\ NoDispatch
    /\ NoEngineCall
    /\ NoAttempt
    /\ UNCHANGED <<tokenVars, uuid, state_file, inbox, listenerVars,
                   superVars, tickDispatched, authLost>>
    /\ UNCHANGED <<schedVars, auxVars>>

\* POST /bot/sendDocument and POST /bot/sendPhoto with the path of a file
\* that exists and without caption
ApiSendFile(endpoint) ==
    /\ IF ~HasAuth
       THEN /\ is_logged_in' = FALSE
            /\ lastReply' = Unauthorized(endpoint)
            /\ UNCHANGED sendVars
       ELSE \E file_size \in FileSizes, ok, up \in BOOLEAN :
              /\ SendFile(file_size, ok, up)
              /\ lastReply' = [endpoint |-> endpoint,
                               code |-> IF ok THEN 200 ELSE 0,
                               upstream |-> up, lost |-> authLost,
                               size |-> file_size]
    /\ NoDispatch
    /\ NoEngineCall
    /\ NoAttempt
    /\ UNCHANGED <<tokenVars, uuid, state_file, inbox, listenerVars,
                   superVars, tickDispatched, authLost>>
    /\ UNCHANGED <<schedVars, auxVars>>

ApiSendDocument == ApiSendFile("sendDocument")

ApiSendPhoto == ApiSendFile("sendPhoto")

\* GET /wechat/login/status with auto_poll: check_login_status(poll=True)
ApiLoginStatus ==
    /\ \E ret \in Returns : CheckLoginStatus(TRUE, ret)
    /\ NoDispatch
    /\ NoAnswer
    /\ NoAttempt
    /\ UNCHANGED <<sendVars, inbox, listenerVars, superVars, tickDispatched>>
    /\ UNCHANGED <<schedVars, auxRest>>

\* GET /wechat/qr: check_login_status(poll=False) answers from the tokens
\* held; without them get_login_qr polls once, then asks for a UUID when
\* none is held or the one held is older than 240 s; _jslogin_get_uuid may
\* raise
ApiGetQr ==
    /\ IF HasAuth
       THEN \* "Already logged in"
            /\ is_logged_in' = TRUE
            /\ NoEngineCall
            /\ lastReply' = QrReply(200, FALSE)
            /\ UNCHANGED <<tokenVars, uuid, state_file, authLost, qrVars>>
       ELSE \E ret \in Returns, u \in Uuids :
              /\ CheckLoginStatusU(TRUE, ret, u, FALSE)
              /\ uuid_dead' = DeadAfterPoll
              /\ IF ret = "false"
                 THEN \E expired, got, fetched \in BOOLEAN :
                        IF u = "" \/ expired
                        THEN IF got /\ uuid_issued < MaxUuids
                             THEN /\ uuid_issued' = uuid_issued + 1
                                  /\ uuid' = UuidOf(uuid_issued')
                                  /\ lastReply' =
                                        IF fetched THEN QrReply(200, TRUE)
                                        ELSE QrReply(500, FALSE)
                             ELSE \* _jslogin_get_uuid raises
                                  /\ ~fetched
                                  /\ uuid' = u
                                  /\ lastReply' = QrReply(500, FALSE)
                                  /\ UNCHANGED uuid_issued
                        ELSE /\ uuid' = u
                             /\ got
                             /\ lastReply' =
                                   IF fetched THEN QrReply(200, TRUE)
                                   ELSE QrReply(500, FALSE)
                             /\ UNCHANGED uuid_issued
                 ELSE /\ uuid' = u
                      /\ lastReply' = IF ret = "true"
                                      THEN QrReply(200, FALSE)
                                      ELSE QrReply(500, FALSE)
                      /\ UNCHANGED uuid_issued
    /\ NoDispatch
    /\ NoAttempt
    /\ UNCHANGED <<sendVars, inbox, listenerVars, superVars, tickDispatched>>
    /\ UNCHANGED <<schedVars, auxRest>>

(***************************************************************************)
(* CommandProcessor: the task table and the scheduler loop.                *)
(***************************************************************************)
\* add_task calls in one run; the entries of a dict stay in place up to
\* its fifth insertion
MaxAdds == 2
\* the last instant of the local clock
MaxClock == 3

\* the local clock: instant c is the minute Hm(c) of the day Day(c); the
\* minute 23:59 of a day is followed by the minute 00:00 of the next
Day(c) == 1 + (c + 1) \div 2

Hm(c) == IF c % 2 = 0 THEN "23:59" ELSE "00:00"

TimeHms == {"23:59", "00:00"}

\* a step of the processor that leaves the engine and the loops of main.py
\* alone
EngineIdle ==
    /\ NoDispatch
    /\ NoEngineCall
    /\ NoAnswer
    /\ NoAttempt
    /\ UNCHANGED <<tokenVars, uuid, state_file, inbox, listenerVars,
                   superVars, tickDispatched, authLost>>

\* a step of the processor's task table or scheduler loop
BotIdle == EngineIdle /\ UNCHANGED auxVars

\* the task record with the command text as given
ScheduledTaskRaw(task_id, time_hm, command_text) ==
    [task_id |-> task_id, time_hm |-> time_hm,
     command_text |-> command_text, enabled |-> TRUE,
     last_run_date |-> 0, live |-> TRUE]

\* ScheduledTask(task_id, time_hm, command_text.strip(), enabled=True,
\* last_run_date=None): the date None is 0; live is cleared when the key is
\* deleted from the dict
ScheduledTask(task_id, time_hm, command_text) ==
    [task_id |-> task_id, time_hm |-> time_hm,
     command_text |-> Strip(command_text), enabled |-> TRUE,
     last_run_date |-> 0, live |-> TRUE]

\* the command texts of the add_task calls
CommandTexts == {"/ping", " /ping "}

\* the order of the strings of TimeHms
HmRank(time_hm) == IF time_hm = "00:00" THEN 0 ELSE 1

\* asdict(task)
AsDict(e) ==
    [task_id |-> e.task_id, time_hm |-> e.time_hm,
     command_text |-> e.command_text, enabled |-> e.enabled,
     last_run_date |-> e.last_run_date]

\* sorted(..., key=lambda item: (item.time_hm, item.task_id))
RECURSIVE SortedTasks(_)
SortedTasks(S) ==
    IF S = {} THEN <<>>
    ELSE LET first == CHOOSE e \in S : \A f \in S :
                        \/ HmRank(e.time_hm) < HmRank(f.time_hm)
                        \/ /\ e.time_hm = f.time_hm
                           /\ e.task_id <= f.task_id
         IN  <<first>> \o SortedTasks(S \ {first})

\* list_tasks()
ListTasks(t) == SortedTasks({AsDict(t[i]) : i \in {j \in 1..Len(t) : t[j].live}})

NoTaskOp == [op |-> "none", task_id |-> 0, time_hm |-> "", command_text |-> ""]

\* len(self.tasks)
Used(t) == Cardinality({i \in 1..Len(t) : t[i].live})

\* the rows _save_tasks writes
Rows(t) == SelectSeq(t, LAMBDA e : e.live)

\* _save_tasks: write_text may raise, and then nothing is written
SaveTasks(t, saved) == task_file' = IF saved THEN Rows(t) ELSE task_file

\* the iteration of "for task in self.tasks.values()" from position pos up
\* to the next task to run: deleted entries are skipped, and an entry found
\* after len(dict) entries have been yielded raises RuntimeError; d and m
\* are the today and hm of the tick
RECURSIVE Scan(_, _, _, _, _)
Scan(t, pos, len, d, m) ==
    IF pos > Len(t) THEN [kind |-> "end", pos |-> pos, len |-> len, idx |-> 0]
    ELSE IF ~t[pos].live THEN Scan(t, pos + 1, len, d, m)
    ELSE IF len = 0
    THEN [kind |-> "raise", pos |-> pos, len |-> len, idx |-> 0]
    ELSE IF t[pos].enabled /\ t[pos].time_hm = m /\ t[pos].last_run_date # d
    THEN [kind |-> "run", pos |-> pos + 1, len |-> len - 1, idx |-> pos]
    ELSE Scan(t, pos + 1, len - 1, d, m)

\* the loop body from the for statement on: the iterator raises RuntimeError
\* when the size of the dict has changed; a task to run is invoked and
\* awaited; at the end the tasks are saved if dirty, and the loop sleeps.
\* Nothing in _scheduler_loop catches an exception.
Resume(t, pos, used, len, d, m, dv) ==
    \E saved \in BOOLEAN :
      LET r == IF used # Used(t)
               THEN [kind |-> "raise", pos |-> pos, len |-> len, idx |-> 0]
               ELSE Scan(t, pos, len, d, m)
          run == IF r.kind = "run" THEN <<t[r.idx].task_id, Day(clock)>>
                 ELSE <<0, 0>>
          \* the iterator lives as long as the for statement
          going == r.kind = "run"
      IN  /\ itPos' = IF going THEN r.pos ELSE 1
          /\ itUsed' = IF going THEN used ELSE 0
          /\ itLen' = IF going THEN r.len ELSE 0
          /\ held' = r.idx
          /\ dirty' = dv
          /\ IF r.kind = "run"
             THEN /\ spc' = "run"
                  /\ ran' = ran \cup {run}
                  /\ ranAgain' = (run \in ran)
                  /\ UNCHANGED task_file
             ELSE /\ ranAgain' = FALSE
                  /\ UNCHANGED ran
                  /\ IF r.kind = "raise"
                     THEN spc' = "dead" /\ UNCHANGED task_file
                     ELSE IF dv
                     THEN /\ SaveTasks(t, saved)
                          /\ spc' = IF saved THEN "sleep" ELSE "dead"
                     ELSE spc' = "sleep" /\ UNCHANGED task_file

\* a tick of _scheduler_loop: now is read once, then the for statement
S_Tick ==
    /\ spc = "sleep"
    /\ today' = Day(clock)
    /\ hm' = Hm(clock)
    /\ Resume(tasks, 1, Used(tasks), Used(tasks), Day(clock), Hm(clock),
              FALSE)
    /\ taskObs' = NoTaskOp
    /\ BotIdle
    /\ UNCHANGED <<is_logged_in, sendVars, tasks, nAdds, clock>>

\* _run_task returns: the result, if any, was sent through the engine; the
\* task object held is dated, and the for statement goes on
S_Done ==
    /\ spc = "run"
    /\ \/ UNCHANGED <<is_logged_in, sendVars>>
       \/ \E ok \in BOOLEAN : SendText("task", ok)
    /\ LET t == IF tasks[held].live
                THEN [tasks EXCEPT ![held].last_run_date = today]
                ELSE tasks
       IN  /\ tasks' = t
           /\ Resume(t, itPos, itUsed, itLen, today, hm, TRUE)
    /\ taskObs' = NoTaskOp
    /\ BotIdle
    /\ UNCHANGED <<today, hm, nAdds, clock>>

\* a step that leaves the scheduler loop alone
SchedIdle ==
    /\ ranAgain' = FALSE
    /\ UNCHANGED <<spc, today, hm, dirty, itPos, itUsed, itLen, held, ran>>

\* time passes while the scheduler loop sleeps or awaits a task
ClockTick ==
    /\ spc \in {"sleep", "run"}
    /\ clock < MaxClock
    /\ clock' = clock + 1
    /\ taskObs' = NoTaskOp
    /\ SchedIdle
    /\ BotIdle
    /\ UNCHANGED <<is_logged_in, sendVars, tasks, task_file, nAdds>>

\* POST /framework/tasks: add_task; the id is the millisecond of the call
AddTask ==
    /\ nAdds < MaxAdds
    /\ \E time_hm \in TimeHms, command_text \in CommandTexts,
          saved \in BOOLEAN :
         /\ tasks' = Append(tasks, ScheduledTask(nAdds + 1, time_hm,
                                                command_text))
         /\ SaveTasks(tasks', saved)
         /\ taskObs' = [op |-> "add", task_id |-> nAdds + 1,
                        time_hm |-> time_hm, command_text |-> command_text]
    /\ nAdds' = nAdds + 1
    /\ SchedIdle
    /\ BotIdle
    /\ UNCHANGED <<is_logged_in, sendVars, clock>>

\* DELETE /framework/tasks/{task_id}: delete_task of a task of the table
DeleteTask ==
    /\ \E i \in 1..Len(tasks), saved \in BOOLEAN :
         /\ tasks[i].live
         /\ tasks' = [tasks EXCEPT ![i].live = FALSE]
         /\ SaveTasks(tasks', saved)
         /\ taskObs' = [op |-> "delete", task_id |-> tasks[i].task_id,
                        time_hm |-> "", command_text |-> ""]
    /\ SchedIdle
    /\ BotIdle
    /\ UNCHANGED <<is_logged_in, sendVars, clock, nAdds>>

\* POST /framework/tasks/{task_id}/enabled: set_task_enabled
SetTaskEnabled ==
    /\ \E i \in 1..Len(tasks), enabled, saved \in BOOLEAN :
         /\ tasks[i].live
         /\ tasks' = [tasks EXCEPT ![i].enabled = enabled]
         /\ SaveTasks(tasks', saved)
    /\ taskObs' = NoTaskOp
    /\ SchedIdle
    /\ BotIdle
    /\ UNCHANGED <<is_logged_in, sendVars, clock, nAdds>>

\* a manual run that dates the task as a scheduled run does
RunTaskNowDated ==
    /\ \E i \in 1..Len(tasks) :
         /\ tasks[i].live
         /\ tasks' = [tasks EXCEPT ![i].last_run_date = Day(clock)]
         /\ taskObs' = [op |-> "run_now", task_id |-> tasks[i].task_id,
                        time_hm |-> tasks[i].time_hm,
                        command_text |-> tasks[i].command_text]
    /\ \/ UNCHANGED <<is_logged_in, sendVars>>
       \/ \E ok \in BOOLEAN : SendText("task", ok)
    /\ SchedIdle
    /\ BotIdle
    /\ UNCHANGED <<clock, nAdds, task_file>>

\* POST /framework/tasks/{task_id}/run: run_task_now on a task of the
\* table: _run_task dispatches the command text and sends the result, if
\* there is one, through the engine
RunTaskNow ==
    /\ \E i \in 1..Len(tasks) :
         /\ tasks[i].live
         /\ taskObs' = [op |-> "run_now", task_id |-> tasks[i].task_id,
                        time_hm |-> tasks[i].time_hm,
                        command_text |-> tasks[i].command_text]
    /\ \/ UNCHANGED <<is_logged_in, sendVars>>
       \/ \E ok \in BOOLEAN : SendText("task", ok)
    /\ SchedIdle
    /\ BotIdle
    /\ UNCHANGED <<clock, nAdds, tasks, task_file>>

(***************************************************************************)
(* add_task with the time texts taken character by character, and the     *)
(* task id read from the clock: clock is the instant of the call, and two  *)
(* calls at one instant read the same millisecond.                         *)
(***************************************************************************)
Digits == {"0", "1", "2", "3", "4", "5", "6", "7", "8", "9"}

\* the time texts of the add_task calls: "23:59", "23:59\n", "24:00", "9:30"
TimeTexts == {<<"2", "3", ":", "5", "9">>,
              <<"2", "3", ":", "5", "9", "\n">>,
              <<"2", "4", ":", "0", "0">>,
              <<"9", ":", "3", "0">>}

\* HH:MM with HH in 00..23 and MM in 00..59, and nothing else
IsHourMinute(s) ==
    /\ Len(s) = 5
    /\ \/ s[1] \in {"0", "1"} /\ s[2] \in Digits
       \/ s[1] = "2" /\ s[2] \in {"0", "1", "2", "3"}
    /\ s[3] = ":"
    /\ s[4] \in {"0", "1", "2", "3", "4", "5"}
    /\ s[5] \in Digits

\* re.match(r"^([01]\d|2[0-3]):[0-5]\d$", time_hm): "$" matches at the end
\* of the text and also before a line feed that ends it
TimeMatch(s) ==
    \/ IsHourMinute(s)
    \/ Len(s) = 6 /\ s[6] = "\n" /\ IsHourMinute(SubSeq(s, 1, 5))

\* f"task_{int(time.time() * 1000)}" at the instant c
TaskIdAt(c) == c

\* self.tasks[task_id] = task: the value of a key the dict holds is
\* replaced where it stands, a new key goes to the end
DictSet(t, task) ==
    IF \E i \in 1..Len(t) : t[i].live /\ t[i].task_id = task.task_id
    THEN [i \in 1..Len(t) |->
              IF t[i].live /\ t[i].task_id = task.task_id THEN task
              ELSE t[i]]
    ELSE Append(t, task)

\* add_task(time_hm, command_text): ValueError on a text the pattern does
\* not match; else the task is put under the id of the instant and the
\* tasks are saved
AddTaskAtInstant ==
    /\ \E time_hm \in TimeTexts, command_text \in CommandTexts,
          saved \in BOOLEAN :
         IF ~TimeMatch(time_hm)
         THEN /\ taskObs' = [op |-> "add_error", task_id |-> 0,
                             time_hm |-> time_hm,
                             command_text |-> command_text]
              /\ UNCHANGED <<tasks, task_file, nAdds>>
         ELSE /\ nAdds < MaxAdds
              /\ tasks' = DictSet(tasks, ScheduledTask(TaskIdAt(clock),
                                                       time_hm, command_text))
              /\ SaveTasks(tasks', saved)
              /\ nAdds' = nAdds + 1
              /\ taskObs' = [op |-> IF saved THEN "add" ELSE "add_unsaved",
                             task_id |-> TaskIdAt(clock),
                             time_hm |-> time_hm,
                             command_text |-> command_text]
    /\ SchedIdle
    /\ BotIdle
    /\ UNCHANGED <<is_logged_in, sendVars, clock>>

\* CommandProcessor.__init__ of a new process: _load_tasks reads the rows
\* of the task file into an empty dict
LoadTasks ==
    /\ tasks # task_file
    /\ tasks' = task_file
    /\ taskObs' = [op |-> "load", task_id |-> 0, time_hm |-> "",
                   command_text |-> ""]
    /\ SchedIdle
    /\ BotIdle
    /\ UNCHANGED <<is_logged_in, sendVars, clock, task_file, nAdds>>

(***************************************************************************)
(* The message store (message_store.py): the tables messages and files of  *)
(* an SQLite database.  messages.id is INTEGER PRIMARY KEY AUTOINCREMENT,  *)
(* so a new row takes one more than the largest row id the table has ever  *)
(* held, which sqlite_sequence keeps; msg_id is UNIQUE, and INSERT OR      *)
(* REPLACE deletes the row in conflict before it inserts.                  *)
(***************************************************************************)
\* the largest row id of a run
MaxRowId == 4
\* the last instant of the store's clock
MaxNow == 2
\* the cap of get_updates on its limit (1000 in the source)
UpdatesCap == 2
\* the seconds of a day (86400 in the source)
DaySeconds == 1

StoreMsgIds == {"m1", "m2"}
StoreTypes == {"text", "file"}
\* the retention of the sweeps, in days
SweepDays == {1}
\* the arguments of get_updates: offset, limit, msg_type and since (None is
\* the empty string, respectively 0, which the code also takes for None)
Offsets == -1..2
Limits == -1..(UpdatesCap + 1)
TypeFilters == {"", "text"}
Sinces == {0, 1}

Min(a, b) == IF a <= b THEN a ELSE b

MaxOf(S) == CHOOSE x \in S : \A y \in S : y <= x

IdsOf(rows) == {r.id : r \in rows}

\* a rowid table without AUTOINCREMENT: one more than the largest row id
\* in the table
NextRowIdNoSequence(rows, seq) == MaxOf(IdsOf(rows) \cup {0}) + 1

\* the row id AUTOINCREMENT gives to the next row
NextRowId(rows, seq) == MaxOf(IdsOf(rows) \cup {seq}) + 1

\* ORDER BY id ASC
RECURSIVE Ascending(_)
Ascending(S) ==
    IF S = {} THEN <<>>
    ELSE LET m == CHOOSE x \in S : \A y \in S : x <= y
         IN <<m>> \o Ascending(S \ {m})

\* LIMIT n: a negative n is no limit
Limit(s, n) == IF n < 0 \/ Len(s) <= n THEN s ELSE SubSeq(s, 1, n)

\* MessageStore.get_updates: the row ids of the answer
GetUpdates(rows, offset, limit, msg_type, since) ==
    LET sel == {r \in rows : /\ r.id > offset
                             /\ (msg_type # "" => r.type = msg_type)
                             /\ (since # 0 => r.timestamp >= since)}
    IN Limit(Ascending(IdsOf(sel)), Min(limit, UpdatesCap))

NoQuery == [called |-> FALSE, offset |-> 0, limit |-> 0, rows |-> <<>>]

StoreIdle == UNCHANGED storeVars

\* a step of the store alone
StoreOnly ==
    /\ EngineIdle
    /\ UNCHANGED <<is_logged_in, sendVars, schedVars, traceVars, mediaVars,
                   paceVars, qrVars, pluginVars, roundVars, extraVars>>

\* MessageStore.save_message(msg_id, msg_type, ...) with timestamp=None
SaveMessage ==
    \E id \in StoreMsgIds, ty \in StoreTypes :
        LET kept == {r \in db_messages : r.msg_id # id}
            rid == NextRowId(db_messages, db_seq)
        IN /\ rid <= MaxRowId
           /\ db_messages' = kept \cup {[id |-> rid, msg_id |-> id,
                                         type |-> ty, timestamp |-> db_now]}
           /\ db_seq' = rid
           /\ db_saved' = rid
           /\ db_assigned' = db_assigned \cup {rid}
           /\ db_out' = NoQuery
           /\ UNCHANGED <<db_files, db_now>>
           /\ StoreOnly

\* MessageStore.cleanup_old_messages(days)
CleanupOldMessages ==
    \E days \in SweepDays :
        LET cutoff == db_now - days * DaySeconds
        IN /\ db_messages' = {r \in db_messages : ~(r.timestamp < cutoff)}
           /\ db_saved' = 0
           /\ db_out' = NoQuery
           /\ UNCHANGED <<db_seq, db_files, db_now, db_assigned>>
           /\ StoreOnly

\* MessageStore.get_updates(offset, limit, msg_type, since)
StoreGetUpdates ==
    \E k \in Offsets, n \in Limits, ty \in TypeFilters, since \in Sinces :
        /\ db_out' = [called |-> TRUE, offset |-> k, limit |-> n,
                      rows |-> GetUpdates(db_messages, k, n, ty, since)]
        /\ db_saved' = 0
        /\ UNCHANGED <<db_messages, db_seq, db_files, db_now, db_assigned>>
        /\ StoreOnly

\* time.time() moves on
StoreClock ==
    /\ db_now < MaxNow
    /\ db_now' = db_now + 1
    /\ db_saved' = 0
    /\ db_out' = NoQuery
    /\ UNCHANGED <<db_messages, db_seq, db_files, db_assigned>>
    /\ StoreOnly

\* f"sent_{int(time.time() * 1000)}": the msg_id of a sent message
SentId(now) == "sent_" \o ToString(now)

SentIds == {SentId(t) : t \in 0..MaxNow}

\* the rows of the messages that were sent
SentRows(rows) == {r \in rows : r.msg_id \in SentIds}

\* save_message(msg_id=f"sent_...", msg_type, ..., is_mine=True)
SaveSent(ty) ==
    LET id == SentId(db_now)
        kept == {r \in db_messages : r.msg_id # id}
        rid == NextRowId(db_messages, db_seq)
    IN /\ rid <= MaxRowId
       /\ db_messages' = kept \cup {[id |-> rid, msg_id |-> id, type |-> ty,
                                     timestamp |-> db_now]}
       /\ db_seq' = rid
       /\ db_saved' = rid
       /\ db_assigned' = db_assigned \cup {rid}

\* a send of the processor leaves the loops, the scheduler and the other
\* components alone
SentFrame ==
    /\ NoDispatch
    /\ NoEngineCall
    /\ NoAttempt
    /\ db_out' = NoQuery
    /\ UNCHANGED <<tokenVars, uuid, state_file, inbox, listenerVars,
                   superVars, tickDispatched, authLost, db_files, db_now>>
    /\ UNCHANGED <<schedVars, traceVars, mediaVars, paceVars, qrVars,
                   pluginVars, roundVars, extraVars>>

\* CommandProcessor.send_message(text): send_text, then save_message
\* whatever send_text has returned
ProcessorSendMessage ==
    /\ \E ok \in BOOLEAN :
         /\ SendText(ReplyText, ok)
         /\ lastReply' = [endpoint |-> "send_message",
                          code |-> IF ok THEN 200 ELSE 0,
                          upstream |-> TRUE, lost |-> authLost, size |-> -1]
    /\ SaveSent("text")
    /\ SentFrame

\* CommandProcessor.send_document(file_path) for a file that exists:
\* send_file, then save_message "if success"
ProcessorSendDocument ==
    /\ \E file_size \in FileSizes, ok, up \in BOOLEAN :
         /\ SendFile(file_size, ok, up)
         /\ lastReply' = [endpoint |-> "send_document",
                          code |-> IF ok THEN 200 ELSE 0,
                          upstream |-> up, lost |-> authLost,
                          size |-> file_size]
         /\ IF ok THEN SaveSent("file")
            ELSE UNCHANGED <<db_messages, db_seq, db_saved, db_assigned>>
    /\ SentFrame

\* the limits a client of the SDK polls with
SdkLimits == {1, 2}

\* Bot.get_updates(limit=n, auto_offset=True) of the SDK: GET
\* /bot/getUpdates with offset = self._offset, which the store answers with
\* the rows of id > offset; then "self._offset = updates[-1].update_id + 1"
SdkGetUpdates ==
    \E n \in SdkLimits :
        LET updates == GetUpdates(db_messages, sdk_offset, n, "", 0)
        IN /\ sdk_received' = sdk_received \o updates
           /\ sdk_offset' = IF updates # <<>>
                            THEN updates[Len(updates)] + 1 ELSE sdk_offset
           /\ db_out' = [called |-> TRUE, offset |-> sdk_offset, limit |-> n,
                         rows |-> updates]
           /\ db_saved' = 0
           /\ UNCHANGED <<db_messages, db_seq, db_files, db_now, db_assigned>>
           /\ EngineIdle
           /\ UNCHANGED <<is_logged_in, sendVars, schedVars, traceVars,
                          mediaVars, paceVars, qrVars, pluginVars, roundVars,
                          chainVars, flightVars, procVars, limitedVars,
                          chatVars, registered>>

\* Bot.__init__
InitSdk ==
    /\ sdk_offset = 0
    /\ sdk_received = <<>>

\* MessageStore.__init__ on a new database file
InitStore ==
    /\ db_messages = {}
    /\ db_seq = 0
    /\ db_files = {}
    /\ db_now = 0
    /\ db_assigned = {}
    /\ db_saved = 0
    /\ db_out = NoQuery

(***************************************************************************)
(* The trace recorder (direct_bot.py).  A text is a sequence of tokens: a  *)
(* parameter name (in lower case, the patterns ignore case), a value, or   *)
(* one of the characters the patterns tell apart.  pattern.sub is computed *)
(* on the tokens as the regular expression does on the characters.         *)
(***************************************************************************)
\* _trace_buffer maxlen (100 in the source)
TraceCap == 1
\* the rows the trace file holds in a run
MaxTraceLines == 1

\* the values of the sensitive parameters and of the sensitive headers
Secrets == {"v1"}
Redacted == "***"

SensitiveNames == {"pass_ticket", "webwx_data_ticket", "skey", "sid", "wxsid",
                   "deviceid", "uin", "aeskey", "signature"}
\* other parameters of the protocol
OtherNames == {"wxuin", "lang"}

\* _SANITIZE_PATTERNS: (name\s*[=:]\s*)([^&\s"',;]+), in this order
SANITIZE_PATTERNS ==
    <<"pass_ticket", "webwx_data_ticket", "skey", "sid", "wxsid", "deviceid",
      "uin", "aeskey", "signature">>

\* _SANITIZE_JSON_PATTERNS: ("name"\s*:\s*")[^"]*("), in this order
SANITIZE_JSON_PATTERNS ==
    <<"pass_ticket", "webwx_data_ticket", "skey", "sid", "deviceid",
      "signature", "aeskey">>

\* the name token ends with the name of the pattern: a pattern without a
\* leading quote also matches the tail of a longer name
EndsWith(name, pat) ==
    \/ name = pat
    \/ pat = "sid" /\ name = "wxsid"
    \/ pat = "uin" /\ name = "wxuin"
    \/ pat = "skey" /\ name = "aeskey"

\* [^&\s"',;]
InValueClass(tok) == tok \notin {"&", " ", "\"", "'", ",", ";"}

\* \s* from position i: the first position that holds no white space
RECURSIVE SkipSpaces(_, _)
SkipSpaces(s, i) ==
    IF i <= Len(s) /\ s[i] = " " THEN SkipSpaces(s, i + 1) ELSE i

\* [^&\s"',;]+ from position k: the position after the run
RECURSIVE RunEnd(_, _)
RunEnd(s, k) ==
    IF k <= Len(s) /\ InValueClass(s[k]) THEN RunEnd(s, k + 1) ELSE k

\* [^"]*" from position k: the position of the closing quote, 0 if none
RECURSIVE QuoteAt(_, _)
QuoteAt(s, k) ==
    IF k > Len(s) THEN 0
    ELSE IF s[k] = "\"" THEN k ELSE QuoteAt(s, k + 1)

\* pattern.sub(r'\1***', text) for a pattern of _SANITIZE_PATTERNS
RECURSIVE SubUrl(_, _, _)
SubUrl(pat, s, i) ==
    IF i > Len(s) THEN <<>>
    ELSE LET j == SkipSpaces(s, i + 1)
             k == SkipSpaces(s, j + 1)
             e == RunEnd(s, k)
         IN IF /\ EndsWith(s[i], pat)
               /\ j <= Len(s)
               /\ s[j] \in {"=", ":"}
               /\ e > k
            THEN SubSeq(s, i, k - 1) \o <<Redacted>> \o SubUrl(pat, s, e)
            ELSE <<s[i]>> \o SubUrl(pat, s, i + 1)

\* pattern.sub(r'\1***\2', text) for a pattern of _SANITIZE_JSON_PATTERNS
RECURSIVE SubJson(_, _, _)
SubJson(pat, s, i) ==
    IF i > Len(s) THEN <<>>
    ELSE LET j == SkipSpaces(s, i + 3)
             k == SkipSpaces(s, j + 1)
             e == QuoteAt(s, k + 1)
         IN IF /\ i + 2 <= Len(s)
               /\ s[i] = "\""
               /\ s[i + 1] = pat
               /\ s[i + 2] = "\""
               /\ j <= Len(s)
               /\ s[j] = ":"
               /\ k <= Len(s)
               /\ s[k] = "\""
               /\ e # 0
            THEN SubSeq(s, i, k) \o <<Redacted, "\"">> \o SubJson(pat, s, e + 1)
            ELSE <<s[i]>> \o SubJson(pat, s, i + 1)

RECURSIVE ApplyUrlPatterns(_, _)
ApplyUrlPatterns(pats, s) ==
    IF pats = <<>> THEN s
    ELSE ApplyUrlPatterns(Tail(pats), SubUrl(Head(pats), s, 1))

RECURSIVE ApplyJsonPatterns(_, _)
ApplyJsonPatterns(pats, s) ==
    IF pats = <<>> THEN s
    ELSE ApplyJsonPatterns(Tail(pats), SubJson(Head(pats), s, 1))

\* WeChatHelperBot._sanitize_text with trace_redact on (the default)
SanitizeText(text) ==
    ApplyJsonPatterns(SANITIZE_JSON_PATTERNS,
                      ApplyUrlPatterns(SANITIZE_PATTERNS, text))

SensitiveHeaders == {"cookie", "set-cookie", "authorization"}

\* WeChatHelperBot._sanitize_headers
SanitizeHeaders(headers) ==
    [h \in DOMAIN headers |->
        IF h \in SensitiveHeaders THEN <<Redacted>>
        ELSE SanitizeText(headers[h])]

\* the texts of a request or response: one parameter in the query string,
\* or one member of a JSON body as json.dumps writes it compactly, with a
\* space after the colon, or for a number
ParamNames == SensitiveNames \cup OtherNames

ValueOf(name) == IF name \in SensitiveNames THEN "v1" ELSE "zh"

UrlText(name) == <<"/cgi-bin", "?", "r", "=", "1", "&", name, "=", ValueOf(name)>>

JsonText(name, style) ==
    IF style = "compact"
    THEN <<"{", "\"", name, "\"", ":", "\"", ValueOf(name), "\"", "}">>
    ELSE IF style = "spaced"
    THEN <<"{", "\"", name, "\"", ":", " ", "\"", ValueOf(name), "\"", "}">>
    ELSE <<"{", "\"", name, "\"", ":", " ", ValueOf(name), "}">>

\* the styles of a member whose value is a string
JsonStyles == {"compact", "spaced"}

BareUrl == <<"/cgi-bin">>

\* the exchanges the recorder sees: URL, headers and textual body; the
\* Uin of _base_request is a number when the uin is made of digits
Exchanges ==
    {[url |-> UrlText(n), body |-> <<>>] : n \in ParamNames}
    \cup {[url |-> BareUrl, body |-> JsonText(n, st)] :
              n \in ParamNames, st \in JsonStyles}
    \cup {[url |-> BareUrl, body |-> JsonText("uin", "number")]}

RequestHeaders ==
    [h \in {"cookie", "authorization", "referer"} |->
        IF h = "referer" THEN UrlText("pass_ticket") ELSE <<"v1">>]

ResponseHeaders ==
    [h \in {"set-cookie", "content-type"} |->
        IF h = "content-type" THEN <<"json">> ELSE <<"v1">>]

TraceIdle == UNCHANGED traceVars

TraceOnly ==
    /\ EngineIdle
    /\ UNCHANGED <<is_logged_in, sendVars, schedVars, storeVars, mediaVars,
                   paceVars, qrVars, pluginVars, roundVars, extraVars>>

\* the row _trace_on_request hands to _append_trace
RequestRow(x) ==
    [event |-> "request",
     url |-> SanitizeText(x.url),
     headers |-> SanitizeHeaders(RequestHeaders),
     body_preview |-> SanitizeText(x.body)]

\* the row _trace_on_response hands to _append_trace
ResponseRow(x) ==
    [event |-> "response",
     url |-> SanitizeText(x.url),
     headers |-> SanitizeHeaders(ResponseHeaders),
     body_preview |-> SanitizeText(x.body)]

RequestRows == {RequestRow(x) : x \in Exchanges}

ResponseRows == {ResponseRow(x) : x \in Exchanges}

\* _trace_on_request and _append_trace
TraceOnRequest ==
    \E row \in RequestRows :
        /\ trace_buffer' = DequeAppend(trace_buffer, row, TraceCap)
        /\ UNCHANGED trace_file
        /\ TraceOnly

\* _trace_on_response and _append_trace
TraceOnResponse ==
    \E row \in ResponseRows :
        /\ trace_buffer' = DequeAppend(trace_buffer, row, TraceCap)
        /\ UNCHANGED trace_file
        /\ TraceOnly

\* _flush_trace_buffer
FlushTraceBuffer ==
    /\ trace_buffer # <<>>
    /\ Len(trace_file) + Len(trace_buffer) <= MaxTraceLines
    /\ trace_file' = trace_file \o trace_buffer
    /\ trace_buffer' = <<>>
    /\ TraceOnly

InitTrace ==
    /\ trace_buffer = <<>>
    /\ trace_file = <<>>

(***************************************************************************)
(* The pacing of the ingestion loop (background_listener), tick by tick.   *)
(* The body of a tick, which L_Login .. L_End model step by step, enters   *)
(* here by its outcome only: whether it set had_messages and whether it    *)
(* raised.  An interval is a whole number of units of 1 / (2 * 5^10) s, so *)
(* that every product by 1.2 below the maximum is exact.                   *)
(***************************************************************************)
\* the ticks of a run
MaxTicks == 12

\* the units of one second
Second == 2 * 5^10

\* min_interval = 0.5
min_interval == Second \div 2

\* max_interval = 3.0
max_interval == 3 * Second

\* poll_interval * 1.2
Times12(v) == (v * 6) \div 5

\* the same without "min(..., max_interval)"
GrowIntervalUncapped(v) == Times12(v)

\* min(poll_interval * 1.2, max_interval)
GrowInterval(v) == Min(Times12(v), max_interval)

\* the least number of empty ticks in a row after which the interval is
\* max_interval from any start: 0.5 * 1.2^10 > 3.0
EmptyTicksToMax == 10

NoTick == [had |-> FALSE, raised |-> FALSE]

\* one tick of "while True": the body, the adjustment of poll_interval or
\* the except clause, up to the sleep
ListenerTick ==
    /\ nTicks < MaxTicks
    /\ \E had_messages, raised \in BOOLEAN :
         /\ poll_interval' =
               IF raised THEN max_interval
               ELSE IF had_messages THEN min_interval
               ELSE GrowInterval(poll_interval)
         /\ emptyRun' = IF raised \/ had_messages THEN 0
                        ELSE Min(emptyRun + 1, EmptyTicksToMax)
         /\ paceObs' = [had |-> had_messages, raised |-> raised]
    /\ nTicks' = nTicks + 1
    /\ EngineIdle
    /\ UNCHANGED <<is_logged_in, sendVars, schedVars, storeVars, traceVars,
                   mediaVars, qrVars, pluginVars, roundVars, extraVars>>

\* poll_interval = 1.0
InitPace ==
    /\ poll_interval = Second
    /\ nTicks = 0
    /\ emptyRun = 0
    /\ paceObs = NoTick

(***************************************************************************)
(* PluginLoader.  A plugin is a directory with __init__.py or a single     *)
(* .py file; importing it ends well ("ok"), raises an exception derived    *)
(* from Exception ("raise"), or raises one that is not, such as SystemExit *)
(* ("exit"), which "except Exception" lets through.                        *)
(***************************************************************************)
\* the names of the plugin entries, as sorted() orders them
SortedNames == <<"a", "b">>

PluginNames == {SortedNames[i] : i \in 1..Len(SortedNames)}

Outcomes == {"ok", "raise", "exit"}

\* what the directory holds under one name: the outcome of importing the
\* package and the single file, "none" for an entry that is not there
Entries == [pkg : Outcomes \cup {"none"}, file : Outcomes \cup {"none"}]

NoEntry == [pkg |-> "none", file |-> "none"]

\* a directory without plugins
EmptyDir == [n \in PluginNames |-> NoEntry]

\* plugins_dir does not exist
NoDir == [n \in PluginNames |-> [pkg |-> "missing", file |-> "missing"]]

Dirs == [PluginNames -> Entries]

Plugin(name, is_package) == [name |-> name, is_package |-> is_package]

RECURSIVE SeqToSet(_)
SeqToSet(s) == IF s = <<>> THEN {} ELSE {Head(s)} \cup SeqToSet(Tail(s))

\* RECURSIVE helper of PluginsToLoad: the entries of the names in order
RECURSIVE ScanDir(_, _, _, _)
ScanDir(dir, names, is_package, skip) ==
    IF names = <<>> THEN <<>>
    ELSE LET n == Head(names)
             o == IF is_package THEN dir[n].pkg ELSE dir[n].file
             rest == ScanDir(dir, Tail(names), is_package, skip)
         IN  IF o \in Outcomes /\ n \notin skip
             THEN <<Plugin(n, is_package)>> \o rest
             ELSE rest

\* plugins_to_load: the packages in sorted order, then the single files
\* whose name no package has
PluginsToLoad(dir) ==
    LET packages == ScanDir(dir, SortedNames, TRUE, {})
        loaded_names == {q.name : q \in SeqToSet(packages)}
    IN  packages \o ScanDir(dir, SortedNames, FALSE, loaded_names)

\* what _load_module does for a plugin
OutcomeOf(dir, q) == IF q.is_package THEN dir[q.name].pkg ELSE dir[q.name].file

\* str(path.relative_to(self.plugins_dir))
FileOf(q) ==
    IF q.is_package THEN q.name \o "/__init__.py" ELSE q.name \o ".py"

\* the except clause without the append
RecordErrorDropped(errs, q) == errs

\* self.load_errors.append(error_info)
RecordError(errs, q) ==
    Append(errs, [file |-> FileOf(q), error |-> "exc"])

\* self.loaded_plugins[name] = module
SetLoaded(loaded, q) == {x \in loaded : x.name # q.name} \cup {q}

\* the loop "for name, path, is_package in plugins_to_load"; an exception
\* that is not derived from Exception leaves the loop and load_all
RECURSIVE LoadLoop(_, _, _, _)
LoadLoop(dir, todo, loaded, errs) ==
    IF todo = <<>>
    THEN [loaded |-> loaded, errors |-> errs, aborted |-> FALSE]
    ELSE LET q == Head(todo)
         IN  IF OutcomeOf(dir, q) = "ok"
             THEN LoadLoop(dir, Tail(todo), SetLoaded(loaded, q), errs)
             ELSE IF OutcomeOf(dir, q) = "raise"
             THEN LoadLoop(dir, Tail(todo), loaded, RecordError(errs, q))
             ELSE [loaded |-> loaded, errors |-> errs, aborted |-> TRUE]

\* load_all on a loader that holds loaded; a missing directory
\* is created and nothing else is touched
LoadAll(loaded) ==
    IF plugins_dir = NoDir
    THEN /\ plugins_dir' = EmptyDir
         /\ loaded_plugins' = loaded
         /\ loader_pc' = "running"
         /\ UNCHANGED load_errors
    ELSE LET r == LoadLoop(plugins_dir, PluginsToLoad(plugins_dir), loaded,
                           <<>>)
         IN  /\ loaded_plugins' = r.loaded
             /\ load_errors' = r.errors
             /\ loader_pc' = IF r.aborted THEN "dead" ELSE "running"
             /\ UNCHANGED plugins_dir

\* get_status(): the names loaded and the errors
GetStatus(loaded, errs) ==
    [loaded_plugins |-> {q.name : q \in loaded},
     errors |-> {errs[i].file : i \in 1..Len(errs)}]

\* a step of the plugin loader leaves the rest alone
PluginOnly ==
    /\ EngineIdle
    /\ UNCHANGED <<is_logged_in, sendVars, schedVars, storeVars, traceVars,
                   mediaVars, paceVars, qrVars, roundVars, extraVars>>

\* CommandProcessor.start: load_all on the new loader
ProcessorStart ==
    /\ loader_pc = "new"
    /\ LoadAll(loaded_plugins)
    /\ loadCalled' = TRUE
    /\ PluginOnly

\* POST /plugins/reload and the reload command: reload_all
ReloadAll ==
    /\ loader_pc = "running"
    /\ LoadAll({})
    /\ loadCalled' = TRUE
    /\ PluginOnly

\* the operator changes what the directory holds under one name, or
\* removes the directory
EditPlugins ==
    /\ loader_pc = "running"
    /\ \/ \E n \in PluginNames, e \in Entries :
            /\ plugins_dir # NoDir
            /\ plugins_dir[n] # e
            /\ plugins_dir' = [plugins_dir EXCEPT ![n] = e]
       \/ /\ plugins_dir # NoDir
          /\ plugins_dir' = NoDir
    /\ loadCalled' = FALSE
    /\ UNCHANGED <<loaded_plugins, load_errors, loader_pc>>
    /\ PluginOnly

\* PluginLoader(plugins_dir)
InitLoader ==
    /\ loaded_plugins = {}
    /\ load_errors = <<>>
    /\ loader_pc = "new"
    /\ loadCalled = FALSE

(***************************************************************************)
(* The session document as a whole: save_session, and _load_session in an  *)
(* engine that start() has just built.  json.dumps and json.loads return   *)
(* the strings, integers, lists and dicts of the document as they were.    *)
(* The cookie jar is the nested dict domain -> path -> name of             *)
(* http.cookiejar, read in the order of its keys: a sequence of cookies    *)
(* in which those of a domain, and within it those of a path, are          *)
(* adjacent.                                                               *)
(***************************************************************************)
\* the cookies set into a jar
MaxCookies == 3

\* expires = None is -1
NoExpiry == -1

CookieNames == {"wxsid", "wxuin"}
CookieDomains == {"wx.qq.com", ".qq.com"}
CookiePaths == {"/"}
Expiries == {NoExpiry, 9}

Cookie(name, value, domain, path, expires) ==
    [name |-> name, value |-> value, domain |-> domain, path |-> path,
     expires |-> expires]

Cookies == {Cookie(n, "v", d, p, x) :
               n \in CookieNames, d \in CookieDomains, p \in CookiePaths,
               x \in Expiries}

\* the sequence s with e put after position i
InsertAfter(s, i, e) == SubSeq(s, 1, i) \o <<e>> \o SubSeq(s, i + 1, Len(s))

\* CookieJar.set_cookie: the cookie takes the place of the one with its
\* domain, path and name, or is put last among those of its path, of its
\* domain, or of the jar
JarSet(jar, c) ==
    LET same == {i \in 1..Len(jar) :
                    /\ jar[i].domain = c.domain /\ jar[i].path = c.path
                    /\ jar[i].name = c.name}
        inPath == {i \in 1..Len(jar) :
                      jar[i].domain = c.domain /\ jar[i].path = c.path}
        inDomain == {i \in 1..Len(jar) : jar[i].domain = c.domain}
    IN  IF same # {} THEN [jar EXCEPT ![CHOOSE i \in same : TRUE] = c]
        ELSE IF inPath # {} THEN InsertAfter(jar, MaxOf(inPath), c)
        ELSE IF inDomain # {} THEN InsertAfter(jar, MaxOf(inDomain), c)
        ELSE Append(jar, c)

\* the jar after the cookies of s have been set in turn
RECURSIVE JarOf(_)
JarOf(s) == IF s = <<>> THEN <<>>
            ELSE JarSet(JarOf(SubSeq(s, 1, Len(s) - 1)), s[Len(s)])

Jars == {JarOf(s) : s \in SeqsUpTo(Cookies, MaxCookies)}

\* self.synckey: the value of __init__ and one of webwxsync
SyncKeys == {[Count |-> 0, List |-> <<>>],
             [Count |-> 1, List |-> <<[Key |-> 1, Val |-> 7]>>]}

Session(entry_host, device_id, u, tokens, user_name, synckey, jar) ==
    [entry_host |-> entry_host, device_id |-> device_id, uuid |-> u,
     skey |-> tokens.skey, sid |-> tokens.sid, uin |-> tokens.uin,
     pass_ticket |-> tokens.pass_ticket, user_name |-> user_name,
     synckey |-> synckey, jar |-> jar]

\* the sessions of a running engine
Sessions ==
    {Session(h, "e1", u, k, n, s, j) :
        h \in {"szfilehelper.weixin.qq.com", "filehelper.weixin.qq.com"},
        u \in {"", "u1"},
        k \in {Tokens("tok", "tok", "tok", "tok"), NoTokens},
        n \in {"", "@me"}, s \in SyncKeys, j \in Jars}

\* __init__ and start(): the default entry host, a device id of its own,
\* no UUID, no tokens, an empty jar
FreshEngine ==
    Session("szfilehelper.weixin.qq.com", "e2", "", NoTokens, "",
            [Count |-> 0, List |-> <<>>], <<>>)

NoDocument == [entry_host |-> "none"]

\* the dict save_session appends for a cookie
CookieItem(c) ==
    [name |-> c.name, value |-> c.value, domain |-> c.domain,
     path |-> c.path, expires |-> c.expires]

\* the state save_session writes for the engine e
SessionState(e) ==
    [entry_host |-> e.entry_host, device_id |-> e.device_id,
     uuid |-> e.uuid, skey |-> e.skey, sid |-> e.sid, uin |-> e.uin,
     pass_ticket |-> e.pass_ticket, user_name |-> e.user_name,
     synckey |-> e.synckey,
     cookies |-> [i \in 1..Len(e.jar) |-> CookieItem(e.jar[i])]]

\* self.client.cookies.set(name, value, domain=..., path=...): a cookie
\* without expiry
CookiesSet(jar, item) ==
    JarSet(jar, Cookie(item.name, item.value, item.domain, item.path,
                       NoExpiry))

\* "for item in state.get("cookies", [])"
RECURSIVE LoadCookies(_, _)
LoadCookies(jar, items) ==
    IF items = <<>> THEN jar
    ELSE LoadCookies(CookiesSet(jar, Head(items)), Tail(items))

\* _load_session without the assignment of device_id
LoadSessionStateNoDevice(e, state) ==
    [entry_host |-> state.entry_host, device_id |-> e.device_id,
     uuid |-> state.uuid, skey |-> state.skey, sid |-> state.sid,
     uin |-> state.uin, pass_ticket |-> state.pass_ticket,
     user_name |-> state.user_name, synckey |-> state.synckey,
     jar |-> LoadCookies(e.jar, state.cookies)]

\* _load_session in the engine e on the state read; str() of the string
\* uin is that string
LoadSessionState(e, state) ==
    [entry_host |-> state.entry_host, device_id |-> state.device_id,
     uuid |-> state.uuid, skey |-> state.skey, sid |-> state.sid,
     uin |-> state.uin, pass_ticket |-> state.pass_ticket,
     user_name |-> state.user_name, synckey |-> state.synckey,
     jar |-> LoadCookies(e.jar, state.cookies)]

\* a step of the round trip leaves the rest alone
RoundOnly ==
    /\ EngineIdle
    /\ UNCHANGED <<is_logged_in, sendVars, schedVars, storeVars, traceVars,
                   mediaVars, paceVars, qrVars, pluginVars, extraVars>>

\* save_session of the running engine
SaveSession ==
    /\ session_pc = "live"
    /\ session_doc' = SessionState(engine)
    /\ session_pc' = "saved"
    /\ UNCHANGED <<engine, restarted, session_doc2>>
    /\ RoundOnly

\* the engine ends; start() of a new one: the client, then _load_session;
\* check_login_status(poll=False) leaves the session as loaded
RestartEngine ==
    /\ session_pc = "saved"
    /\ restarted' = LoadSessionState(FreshEngine, session_doc)
    /\ session_pc' = "restarted"
    /\ UNCHANGED <<engine, session_doc, session_doc2>>
    /\ RoundOnly

\* save_session of the new engine
SaveRestarted ==
    /\ session_pc = "restarted"
    /\ session_doc2' = SessionState(restarted)
    /\ session_pc' = "resaved"
    /\ UNCHANGED <<engine, session_doc, restarted>>
    /\ RoundOnly

(***************************************************************************)
(* The handler registry of plugin_base and the handler chain of the        *)
(* dispatcher.  A handler is written with what it does on the message of   *)
(* the dispatch: it returns None, the empty string or a text, or it raises *)
(* an Exception or an exception outside Exception (SystemExit,             *)
(* CancelledError).                                                        *)
(***************************************************************************)
MaxHandlers == 3

Priorities == {0, 1}

NoneValue == "<None>"

RaisesException == "<Exception>"

RaisesBaseException == "<BaseException>"

HandlerResults == {NoneValue, "", "hi", RaisesException, RaisesBaseException}

MessageHandlerInfo(name, priority, result) ==
    [name |-> name, priority |-> priority, result |-> result]

\* func.__name__ of the n-th handler registered since the registry was
\* cleared
HandlerName(n) == "h" \o ToString(n)

\* list.sort(key=lambda x: -x.priority): stable, the highest priority first
InsertByPriority(sorted, h) ==
    LET before == {i \in 1..Len(sorted) : sorted[i].priority >= h.priority}
        k == Cardinality(before)
    IN  SubSeq(sorted, 1, k) \o <<h>> \o SubSeq(sorted, k + 1, Len(sorted))

RECURSIVE SortByPriority(_)
SortByPriority(hs) ==
    IF hs = <<>> THEN <<>>
    ELSE InsertByPriority(SortByPriority(SubSeq(hs, 1, Len(hs) - 1)),
                          hs[Len(hs)])

\* get_message_handlers: the list is sorted in place when the flag is
\* down, and the list itself is returned
HandlersRead ==
    IF handlers_sorted THEN message_handlers
    ELSE SortByPriority(message_handlers)

\* a step of a component leaves the engine, the loops, the scheduler and
\* the components of the first part alone
CoreIdle ==
    /\ EngineIdle
    /\ UNCHANGED <<is_logged_in, sendVars, schedVars, storeVars, traceVars,
                   mediaVars, paceVars, qrVars, pluginVars, roundVars>>

NoChainOp ==
    [op |-> "none", chain |-> <<>>, invoked |-> <<>>, replied |-> FALSE,
     aborted |-> FALSE, looked_up |-> FALSE, reply |-> NoneValue]

\* a step on the registry leaves the rest alone
ChainOnly ==
    /\ EngineIdle
    /\ UNCHANGED <<is_logged_in, sendVars, schedVars, storeVars, traceVars,
                   mediaVars, paceVars, qrVars, pluginVars, roundVars,
                   flightVars, procVars, limitedVars, sdkVars, chat_enabled,
                   registered>>

\* on_message(priority)(func): the decorator appends the handler.  Its
\* assignment `_handlers_sorted = False` binds a local name of the
\* decorator, since the global statement stands in the enclosing function
\* on_message, so the flag of the module stays as it was.
OnMessage(priority, result) ==
    /\ Len(message_handlers) < MaxHandlers
    /\ message_handlers' =
           Append(message_handlers,
                  MessageHandlerInfo(HandlerName(Len(message_handlers) + 1),
                                     priority, result))
    /\ UNCHANGED handlers_sorted
    /\ chainObs' = [NoChainOp EXCEPT !.op = "on_message"]
    /\ UNCHANGED dispatchObs
    /\ ChainOnly

\* get_message_handlers, as called by get_status of the loader
GetMessageHandlers ==
    /\ message_handlers' = HandlersRead
    /\ handlers_sorted' = TRUE
    /\ chainObs' = [NoChainOp EXCEPT !.op = "get", !.chain = HandlersRead]
    /\ UNCHANGED dispatchObs
    /\ ChainOnly

\* clear_registry, as called by reload_all of the loader
ClearRegistry ==
    /\ message_handlers' = <<>>
    /\ handlers_sorted' = TRUE
    /\ chainObs' = [NoChainOp EXCEPT !.op = "clear"]
    /\ UNCHANGED dispatchObs
    /\ ChainOnly

\* the test of the loop of _dispatch_text on what a handler returned
ReturnsReplyNonEmpty(result) == result \notin {NoneValue, ""}

ReturnsReply(result) == result # NoneValue

\* the loop over the chain from position i on: the handlers awaited, and
\* how the loop ended
RECURSIVE RunChain(_, _)
RunChain(chain, i) ==
    IF i > Len(chain)
    THEN [invoked |-> <<>>, replied |-> FALSE, aborted |-> FALSE,
          reply |-> NoneValue]
    ELSE IF chain[i].result = RaisesBaseException
    THEN [invoked |-> <<chain[i].name>>, replied |-> FALSE,
          aborted |-> TRUE, reply |-> NoneValue]
    ELSE IF chain[i].result # RaisesException
            /\ ReturnsReply(chain[i].result)
    THEN [invoked |-> <<chain[i].name>>, replied |-> TRUE,
          aborted |-> FALSE, reply |-> chain[i].result]
    ELSE LET rest == RunChain(chain, i + 1)
         IN  [rest EXCEPT !.invoked = <<chain[i].name>> \o @]

\* get_registered_commands
Commands == {"ping"}

CommandNames == {"ping", "nope"}

CommandResults == {"pong", RaisesException}

\* _dispatch_text on a text whose first word is cmd: the chain, then the
\* command, then the chat reply when allow_chat and chat_enabled
DispatchText(cmd, cmd_result, chat) ==
    LET chain == HandlersRead
        run == RunChain(chain, 1)
        lookup == ~run.replied /\ ~run.aborted
        reply == IF ~lookup THEN run.reply
                 ELSE IF cmd \in Commands
                 THEN (IF cmd_result = RaisesException THEN "error"
                       ELSE cmd_result)
                 ELSE IF chat THEN "chat" ELSE NoneValue
    IN  /\ message_handlers' = chain
        /\ handlers_sorted' = TRUE
        /\ chainObs' = [op |-> "dispatch", chain |-> chain,
                        invoked |-> run.invoked, replied |-> run.replied,
                        aborted |-> run.aborted, looked_up |-> lookup,
                        reply |-> reply]
        /\ ChainOnly

\* the callers of _dispatch_text: process (a message of the ingestion
\* loop), execute_command_text (the API), and _run_task with its trigger
DispatchSources == {"process", "api", "task:schedule", "task:manual"}

TaskSources == {"task:schedule", "task:manual"}

\* the allow_chat argument of the caller: _run_task passes False, the
\* others pass or default to True
AllowChat(source) == source \notin TaskSources

NoDispatchObs == [source |-> "none", cmd |-> "", allow_chat |-> FALSE]

\* the test before _chat_reply without the argument of the caller
ChatFallbackAnyCaller(allow_chat, enabled) == enabled

\* "if allow_chat and self.chat_enabled"
ChatFallback(allow_chat, enabled) == allow_chat /\ enabled

\* set_chat_mode(enabled)
SetChatMode(enabled) ==
    /\ chat_enabled' = enabled
    /\ dispatchObs' = NoDispatchObs
    /\ chainObs' = NoChainOp
    /\ UNCHANGED <<message_handlers, handlers_sorted>>
    /\ CoreIdle
    /\ UNCHANGED <<flightVars, procVars, limitedVars, sdkVars, registered>>

\* _dispatch_text as called by source on a text whose first word is cmd
DispatchFrom(source, cmd, cmd_result) ==
    /\ DispatchText(cmd, cmd_result,
                    ChatFallback(AllowChat(source), chat_enabled))
    /\ dispatchObs' = [source |-> source, cmd |-> cmd,
                       allow_chat |-> AllowChat(source)]

\* CommandProcessor.__init__ with the default settings
InitChat ==
    /\ chat_enabled = FALSE
    /\ dispatchObs = NoDispatchObs

InitRegistry ==
    /\ message_handlers = <<>>
    /\ handlers_sorted = TRUE
    /\ chainObs = NoChainOp

(***************************************************************************)
(* The loader and the registry together.  Importing a plugin module runs   *)
(* its decorators, each of which registers at once: a module that ends     *)
(* well registers a command, a message handler, a route and a hook; a      *)
(* module that raises has run the decorators that stand before the         *)
(* statement that raises.  What a plugin holds is fixed by its name: "a"   *)
(* raises in its first statement, "b" after its decorators.                *)
(***************************************************************************)
RegKinds == {"command", "route", "hook"}

RaisesLate(name) == name = "b"

\* the modules whose decorators run during the loop of load_all, in order
RECURSIVE Registering(_, _)
Registering(dir, todo) ==
    IF todo = <<>> THEN <<>>
    ELSE LET q == Head(todo)
             o == OutcomeOf(dir, q)
         IN  IF o = "exit" THEN <<>>
             ELSE (IF o = "ok" \/ (o = "raise" /\ RaisesLate(q.name))
                   THEN <<q.name>> ELSE <<>>)
                  \o Registering(dir, Tail(todo))

RegistrationsOf(names) == {[plugin |-> n, kind |-> k] : n \in names,
                                                        k \in RegKinds}

HandlersOf(names) ==
    [i \in 1..Len(names) |-> MessageHandlerInfo(names[i], 0, NoneValue)]

\* load_all on a loader that holds loaded, with what the modules register
\* on top of the registry given
LoadAllRegistering(loaded, regs, handlers) ==
    LET names == IF plugins_dir = NoDir THEN <<>>
                 ELSE Registering(plugins_dir, PluginsToLoad(plugins_dir))
    IN  /\ LoadAll(loaded)
        /\ loadCalled' = TRUE
        /\ registered' = regs \cup RegistrationsOf(Range(names))
        /\ message_handlers' = handlers \o HandlersOf(names)
        /\ chainObs' = NoChainOp
        /\ UNCHANGED dispatchObs
        /\ EngineIdle
        /\ UNCHANGED <<is_logged_in, sendVars, schedVars, storeVars,
                       traceVars, mediaVars, paceVars, qrVars, roundVars,
                       flightVars, procVars, limitedVars, sdkVars,
                       chat_enabled>>

\* CommandProcessor.start: load_all on the new loader
LoaderStart ==
    /\ loader_pc = "new"
    /\ LoadAllRegistering(loaded_plugins, registered, message_handlers)
    /\ UNCHANGED handlers_sorted

\* reload_all: clear_registry, loaded_plugins.clear(), load_all
LoaderReloadAll ==
    /\ loader_pc = "running"
    /\ LoadAllRegistering({}, {}, <<>>)
    /\ handlers_sorted' = TRUE

(***************************************************************************)
(* send_text and send_file called by an HTTP handler or by the scheduler   *)
(* while the ingestion loop runs: each request to the upstream and its     *)
(* response are two steps.  The upstream gives the message its id when it  *)
(* takes the request, and from then on a sync round can deliver its echo.  *)
(***************************************************************************)
Callers == {"http", "scheduler"}

\* where a caller stands that awaits the response to an upstream request
AwaitingUpstream == {"post", "upload", "filepost"}

InFlight == {c \in Callers : send_pc[c] \in AwaitingUpstream}

\* a step of a send leaves the loops, the scheduler and the components
\* alone
FlightFrame ==
    /\ NoDispatch
    /\ NoEngineCall
    /\ NoAnswer
    /\ NoAttempt
    /\ UNCHANGED <<tokenVars, uuid, state_file, inbox, listenerVars,
                   superVars, tickDispatched, authLost>>
    /\ UNCHANGED <<schedVars, storeVars, traceVars, mediaVars, paceVars,
                   qrVars, pluginVars, roundVars, chainVars, procVars,
                   limitedVars, sdkVars, chatVars, registered>>

\* the upstream takes a post: it gives the message the next id, if it
\* accepts it
UpstreamTakes(c) ==
    \E accepted \in BOOLEAN :
      IF accepted /\ outPool # <<>>
      THEN /\ send_id' = [send_id EXCEPT ![c] = Head(outPool)]
           /\ issued' = issued \cup {Head(outPool)}
           /\ outPool' = Tail(outPool)
      ELSE /\ send_id' = [send_id EXCEPT ![c] = ""]
           /\ UNCHANGED <<issued, outPool>>

\* the response to the post of caller c: None, data without MsgID, or data
\* with the id given; the id is added to the self-sent set
PostReturns(c) ==
    \E resp \in {<<"none">>, <<"data", "">>, <<"data", send_id[c]>>} :
      LET msg_id == IF resp[1] = "none" THEN "" ELSE resp[2]
          added == AddToLimitedSet(send_msg_ids, send_msg_ids_order,
                                   msg_id, SendCap)
      IN  /\ send_msg_ids' = IF msg_id # "" THEN added.s ELSE send_msg_ids
          /\ send_msg_ids_order' =
                IF msg_id # "" THEN added.order ELSE send_msg_ids_order
          /\ send_id' = [send_id EXCEPT ![c] = ""]
          /\ UNCHANGED <<issued, outPool>>

\* send_text is called: check_login_status(poll=False), then the caller
\* waits for the lock
SendTextCall(c) ==
    /\ send_pc[c] = "idle"
    /\ is_logged_in' = HasAuth
    /\ send_pc' = [send_pc EXCEPT ![c] = IF HasAuth THEN "lock" ELSE "idle"]
    /\ UNCHANGED <<lock, send_id, sendVars>>
    /\ FlightFrame

\* "async with self.lock": the lock is free, the caller takes it and
\* _post_message sends its request
SendTextPost(c) ==
    /\ send_pc[c] = "lock"
    /\ lock = NoHolder
    /\ lock' = c
    /\ send_pc' = [send_pc EXCEPT ![c] = "post"]
    /\ UpstreamTakes(c)
    /\ UNCHANGED <<is_logged_in, send_msg_ids, send_msg_ids_order>>
    /\ FlightFrame

\* the response arrives: the lock is released and the id recorded
SendTextReturn(c) ==
    /\ send_pc[c] = "post"
    /\ lock' = NoHolder
    /\ send_pc' = [send_pc EXCEPT ![c] = "idle"]
    /\ PostReturns(c)
    /\ UNCHANGED is_logged_in
    /\ FlightFrame

\* send_file is called on a file that exists: check_login_status(
\* poll=False), the size limit, then _webwxuploadmedia sends its request;
\* the lock is not taken
SendFileCall(c, file_size) ==
    /\ send_pc[c] = "idle"
    /\ is_logged_in' = HasAuth
    /\ send_pc' = [send_pc EXCEPT ![c] =
                      IF HasAuth /\ file_size <= FileSizeLimit
                      THEN "upload" ELSE "idle"]
    /\ UNCHANGED <<lock, send_id, sendVars>>
    /\ FlightFrame

\* the upload has answered: without media id send_file returns, with one
\* _post_message sends its request
SendFileUploaded(c) ==
    /\ send_pc[c] = "upload"
    /\ \/ /\ send_pc' = [send_pc EXCEPT ![c] = "idle"]
          /\ UNCHANGED <<send_id, issued, outPool>>
       \/ /\ send_pc' = [send_pc EXCEPT ![c] = "filepost"]
          /\ UpstreamTakes(c)
    /\ UNCHANGED <<lock, is_logged_in, send_msg_ids, send_msg_ids_order>>
    /\ FlightFrame

\* the response to the post of the file arrives
SendFileReturn(c) ==
    /\ send_pc[c] = "filepost"
    /\ send_pc' = [send_pc EXCEPT ![c] = "idle"]
    /\ PostReturns(c)
    /\ UNCHANGED <<lock, is_logged_in>>
    /\ FlightFrame

InitFlights ==
    /\ lock = NoHolder
    /\ send_pc = [c \in Callers |-> "idle"]
    /\ send_id = [c \in Callers |-> ""]

(***************************************************************************)
(* CommandProcessor.process and the reply of the ingestion loop for one    *)
(* message, call by call.                                                  *)
(***************************************************************************)
ProcessOnly ==
    CoreIdle /\ UNCHANGED <<chainVars, flightVars, limitedVars, sdkVars,
                            chatVars, registered>>

\* the stripped texts of the messages: none, the connectivity probe, a text
ProcTexts == {"", "#ping#", "hi"}

NoProcMsg == [has_id |-> FALSE, text |-> "", url |-> FALSE]

\* "reply = await command_processor.process(msg)" is reached
P_Start(has_id, text, url) ==
    /\ proc_pc \in {"idle", "done", "raised"}
    /\ proc_pc' = "save"
    /\ proc_msg' = [has_id |-> has_id, text |-> text, url |-> url]
    /\ proc_log' = <<>>
    /\ ProcessOnly

\* _save_message_to_store: nothing for a message without id; an exception
\* of save_message is caught
P_Save(raises) ==
    /\ proc_pc = "save"
    /\ proc_pc' = "push"
    /\ proc_log' = IF ~proc_msg.has_id THEN proc_log
                   ELSE Append(proc_log, IF raises THEN "persist_failed"
                                         ELSE "persist")
    /\ UNCHANGED proc_msg
    /\ ProcessOnly

\* _push_to_webhook: nothing without URL; get_max_id is called before the
\* try statement, the post inside it
P_Push(max_raises, post_raises) ==
    /\ proc_pc = "push"
    /\ IF ~proc_msg.url
       THEN proc_pc' = "text" /\ UNCHANGED proc_log
       ELSE IF max_raises
       THEN proc_pc' = "raised" /\ proc_log' = Append(proc_log, "raise")
       ELSE /\ proc_pc' = "text"
            /\ proc_log' = Append(proc_log, IF post_raises THEN "push_failed"
                                            ELSE "push")
    /\ UNCHANGED proc_msg
    /\ ProcessOnly

\* the rest of process: no text, the probe, or _dispatch_text and what it
\* returns
P_Dispatch(replies) ==
    /\ proc_pc = "text"
    /\ IF proc_msg.text = ""
       THEN proc_pc' = "done" /\ UNCHANGED proc_log
       ELSE IF proc_msg.text = "#ping#"
       THEN proc_pc' = "reply" /\ UNCHANGED proc_log
       ELSE /\ proc_pc' = IF replies THEN "reply" ELSE "done"
            /\ proc_log' = Append(proc_log, "dispatch")
    /\ UNCHANGED proc_msg
    /\ ProcessOnly

\* "if reply: ok = await wechat_bot.send_text(reply)"
P_Reply ==
    /\ proc_pc = "reply"
    /\ proc_pc' = "done"
    /\ proc_log' = Append(proc_log, "send")
    /\ UNCHANGED proc_msg
    /\ ProcessOnly

InitProcess ==
    /\ proc_pc = "idle"
    /\ proc_msg = NoProcMsg
    /\ proc_log = <<>>

(***************************************************************************)
(* The bounded containers under insertions of any ids: the engine's        *)
(* _seen_msg_ids and _raw_by_id (filled by _normalize_messages), its       *)
(* _send_msg_ids (filled by the sends), and processed_set of the ingestion *)
(* loop, which is cut back once per tick, after the messages of the batch. *)
(***************************************************************************)
LimitedIds == {"a", "b", "c", "d", "e"}

\* _add_to_limited_dict without the cleaning
AddToLimitedDictNoClean(d, order, key, value, cap) ==
    [d |-> [k \in DOMAIN d \cup {key} |-> IF k = key THEN value ELSE d[k]],
     order |-> DequeAppend(order, key, cap)]

\* _add_to_limited_dict(d, order, key, value) with order.maxlen = cap
AddToLimitedDict(d, order, key, value, cap) ==
    LET d1 == [k \in DOMAIN d \cup {key} |-> IF k = key THEN value ELSE d[k]]
        o1 == DequeAppend(order, key, cap)
    IN  [d |-> IF Cardinality(DOMAIN d1) > cap + Slack
               THEN [k \in DOMAIN d1 \cap Range(o1) |-> d1[k]] ELSE d1,
         order |-> o1]

\* the values a step has removed from a container
Removed(before, after) == before \ after

LimitedFrame ==
    /\ NoDispatch
    /\ syncOut' = <<>> /\ syncEcho' = {}
    /\ pollObs' = NoPoll /\ syncStatus' = "none"
    /\ NoAnswer
    /\ NoAttempt
    /\ UNCHANGED <<tokenVars, uuid, is_logged_in, state_file, inbox,
                   superVars, tickDispatched, authLost, msg_cache, lastBatch,
                   issued, outPool, lpc, messages, sent_buffer>>
    /\ UNCHANGED <<schedVars, storeVars, traceVars, mediaVars, paceVars,
                   qrVars, pluginVars, roundVars, chainVars, flightVars,
                   procVars, sdkVars, chatVars, registered>>

\* _normalize_messages on an entry whose id is in neither set: the id goes
\* to _seen_msg_ids, the entry to _raw_by_id
NormalizeAdds(msg_id) ==
    /\ msg_id \notin seen_msg_ids \cup send_msg_ids
    /\ LET seen == AddToLimitedSet(seen_msg_ids, seen_msg_ids_order, msg_id,
                                   SeenCap)
           raw == AddToLimitedDict(raw_by_id, raw_by_id_order, msg_id,
                                   msg_id, RawCap)
       IN  /\ seen_msg_ids' = seen.s
           /\ seen_msg_ids_order' = seen.order
           /\ raw_by_id' = raw.d
           /\ raw_by_id_order' = raw.order
           /\ pruned' =
                 (IF Removed(seen_msg_ids, seen.s) # {} THEN {"seen"} ELSE {})
                 \cup (IF Removed(DOMAIN raw_by_id, DOMAIN raw.d) # {}
                       THEN {"raw"} ELSE {})
    /\ UNCHANGED <<send_msg_ids, send_msg_ids_order, processed_set,
                   processed_order, batch_pc, batch_left>>
    /\ LimitedFrame

\* a send that the upstream has accepted under msg_id
SendAdds(msg_id) ==
    /\ LET added == AddToLimitedSet(send_msg_ids, send_msg_ids_order, msg_id,
                                    SendCap)
       IN  /\ send_msg_ids' = added.s
           /\ send_msg_ids_order' = added.order
           /\ pruned' = IF Removed(send_msg_ids, added.s) # {}
                        THEN {"send"} ELSE {}
    /\ UNCHANGED <<seen_msg_ids, seen_msg_ids_order, raw_by_id,
                   raw_by_id_order, processed_set, processed_order, batch_pc,
                   batch_left>>
    /\ LimitedFrame

\* a tick of the ingestion loop has a batch of 1..LatestLimit messages
BatchFetched(n) ==
    /\ batch_pc \in {"sleep", "except"}
    /\ batch_pc' = "iter"
    /\ batch_left' = n
    /\ pruned' = {}
    /\ UNCHANGED <<seen_msg_ids, seen_msg_ids_order, raw_by_id,
                   raw_by_id_order, send_msg_ids, send_msg_ids_order,
                   processed_set, processed_order>>
    /\ LimitedFrame

\* one message of the batch: a key that is in processed_set is skipped,
\* another one is recorded; the rest of the iteration may raise, which
\* ends the tick in the except clause
BatchKey(unique_key, raises) ==
    /\ batch_pc = "iter"
    /\ batch_left > 0
    /\ batch_left' = batch_left - 1
    /\ IF unique_key \in processed_set
       THEN UNCHANGED <<processed_set, processed_order, batch_pc>>
       ELSE /\ processed_set' = processed_set \cup {unique_key}
            /\ processed_order' =
                  DequeAppend(processed_order, unique_key, ProcCap)
            /\ batch_pc' = IF raises THEN "except" ELSE "iter"
    /\ pruned' = {}
    /\ UNCHANGED <<seen_msg_ids, seen_msg_ids_order, raw_by_id,
                   raw_by_id_order, send_msg_ids, send_msg_ids_order>>
    /\ LimitedFrame

\* after the last message of the batch
BatchEnd ==
    /\ batch_pc = "iter"
    /\ batch_left = 0
    /\ batch_pc' = "sleep"
    /\ processed_set' = PruneProcessed(processed_set, processed_order)
    /\ pruned' = IF Removed(processed_set, processed_set') # {}
                 THEN {"processed"} ELSE {}
    /\ UNCHANGED <<seen_msg_ids, seen_msg_ids_order, raw_by_id,
                   raw_by_id_order, send_msg_ids, send_msg_ids_order,
                   processed_order, batch_left>>
    /\ LimitedFrame

InitLimited ==
    /\ raw_by_id = <<>>
    /\ raw_by_id_order = <<>>
    /\ batch_pc = "sleep"
    /\ batch_left = 0
    /\ pruned = {}

(***************************************************************************)
(* Initial states and specifications.                                      *)
(***************************************************************************)
InitCore ==
    /\ msg_cache = <<>>
    /\ seen_msg_ids = {}
    /\ seen_msg_ids_order = <<>>
    /\ send_msg_ids = {}
    /\ send_msg_ids_order = <<>>
    /\ issued = {}
    /\ lpc = "sleep"
    /\ messages = <<>>
    /\ processed_set = {}
    /\ processed_order = <<>>
    /\ sent_buffer = <<>>
    /\ reconnect_attempts = 0
    /\ errors = <<>>
    /\ hpc = "sleep"
    /\ dispatched = {}
    /\ tickDispatched = {}
    /\ lastBatch = <<>>
    /\ authLost = FALSE
    /\ dispKey = ""
    /\ dispAgain = FALSE
    /\ syncOut = <<>>
    /\ syncEcho = {}
    /\ pollObs = NoPoll
    /\ lastReply = NoReply
    /\ attempt = "none"
    /\ hbStatus = "none"
    /\ syncStatus = "none"
    /\ tasks = <<>>
    /\ task_file = <<>>
    /\ nAdds = 0
    /\ taskObs = NoTaskOp
    /\ clock = 0
    /\ spc = "sleep"
    /\ today = 0
    /\ hm = ""
    /\ dirty = FALSE
    /\ itPos = 1
    /\ itUsed = 0
    /\ itLen = 0
    /\ held = 0
    /\ ran = {}
    /\ ranAgain = FALSE
    /\ InitStore
    /\ InitTrace
    /\ dlOk = FALSE
    /\ InitPace
    /\ uuid_issued = 0
    /\ uuid_dead = {}
    /\ InitLoader
    /\ session_doc = NoDocument
    /\ restarted = FreshEngine
    /\ session_doc2 = NoDocument
    /\ session_pc = "live"
    /\ InitRegistry
    /\ InitFlights
    /\ InitProcess
    /\ InitLimited
    /\ InitSdk
    /\ InitChat
    /\ registered = {}

\* the default configuration
InitCommon ==
    /\ InitCore
    /\ auto_download = TRUE
    /\ plugins_dir = EmptyDir
    /\ engine = FreshEngine

\* start() has loaded a session file that holds the four tokens, and
\* check_login_status(poll=False) has set is_logged_in
InitRestored ==
    /\ skey = "tok"
    /\ sid = "tok"
    /\ uin = "tok"
    /\ pass_ticket = "tok"
    /\ uuid = ""
    /\ is_logged_in = TRUE
    /\ state_file = Tokens("tok", "tok", "tok", "tok") @@ [uuid |-> ""]

\* start() has found no session file
InitFresh ==
    /\ skey = ""
    /\ sid = ""
    /\ uin = ""
    /\ pass_ticket = ""
    /\ uuid = ""
    /\ is_logged_in = FALSE
    /\ state_file = NoFile

\* The ingestion loop on a restored session; the upstream delivers and
\* re-delivers the entries of the chat, and answers the replies without
\* MsgID.
InitIngest ==
    /\ InitCommon
    /\ InitRestored
    /\ inbox = InIds \cup {" "}
    /\ outPool = <<>>

NextIngest ==
    \/ L_Login
    \/ L_Enter
    \/ L_Fetch
    \/ L_Msg
    \/ L_End

SpecIngest == InitIngest /\ [][NextIngest]_vars

\* The engine alone on a restored session: sends through the endpoint,
\* sync rounds through the login-status endpoint; the chat holds nothing
\* but the echoes.
InitSend ==
    /\ InitCommon
    /\ InitRestored
    /\ inbox = {"", "x1", "g1"}
    /\ outPool = <<"s1", "s2", "s3">>

NextSend ==
    \/ ApiSendMessage
    \/ ApiSendDocument
    \/ ApiLoginStatus

SpecSend == InitSend /\ [][NextSend]_vars

\* The login flow from a fresh start.
InitLogin ==
    /\ InitCommon
    /\ InitFresh
    /\ inbox = {}
    /\ outPool = <<>>

NextLogin ==
    \/ ApiGetQr
    \/ ApiLoginStatus
    \/ SessionSaver
    \/ HbWake
    \/ HbCheck
    \/ HbReload
    \/ HbRelogin

SpecLogin == InitLogin /\ [][NextLogin]_vars

\* Supervision on a restored session: the heartbeat, the ingestion loop
\* and the send endpoints; the chat is empty.
InitSuper ==
    /\ InitCommon
    /\ InitRestored
    /\ inbox = {"m1"}
    /\ outPool = <<"s1">>

NextSuper ==
    \/ HbWake
    \/ HbCheck
    \/ HbReload
    \/ HbRelogin
    \/ L_Login
    \/ L_Enter
    \/ L_Fetch
    \/ L_Msg
    \/ L_End
    \/ ApiSendMessage
    \/ ApiSendDocument
    \/ ApiSendPhoto

SpecSuper == InitSuper /\ [][NextSuper]_vars

\* The scheduler on a restored session, with the task endpoints and the
\* local clock; start() has found no task file.
InitSched ==
    /\ InitCommon
    /\ InitRestored
    /\ inbox = {}
    /\ outPool = <<>>

NextSched ==
    \/ S_Tick
    \/ S_Done
    \/ ClockTick
    \/ AddTask
    \/ DeleteTask
    \/ SetTaskEnabled

SpecSched == InitSched /\ [][NextSched]_vars

\* The task table under add_task calls at the instants of the clock, with
\* restarts of the processor.
NextTable ==
    \/ AddTaskAtInstant
    \/ LoadTasks
    \/ ClockTick

SpecTable == InitSched /\ [][NextTable]_vars

\* The scheduler with manual runs.
NextManual ==
    \/ NextSched
    \/ RunTaskNow

SpecManual == InitSched /\ [][NextManual]_vars

\* The message store alone: saves, sweeps, queries and the clock.
InitStoreSpec ==
    /\ InitCommon
    /\ InitRestored
    /\ inbox = {}
    /\ outPool = <<>>

NextStore ==
    \/ SaveMessage
    \/ CleanupOldMessages
    \/ StoreGetUpdates
    \/ StoreClock

SpecStore == InitStoreSpec /\ [][NextStore]_vars

\* The sends of the processor with the rows they leave in the store.
InitSent ==
    /\ InitCommon
    /\ InitRestored
    /\ inbox = {}
    /\ outPool = <<"s1", "s2", "s3">>

NextSent ==
    \/ ProcessorSendMessage
    \/ ProcessorSendDocument
    \/ StoreClock

SpecSent == InitSent /\ [][NextSent]_vars

\* A client of the SDK polling a store that receives messages.
NextSdk ==
    \/ SaveMessage
    \/ SdkGetUpdates
    \/ StoreClock

SpecSdk == InitStoreSpec /\ [][NextSdk]_vars

\* The trace recorder alone.
InitTraceSpec ==
    /\ InitCommon
    /\ InitRestored
    /\ inbox = {}
    /\ outPool = <<>>

NextTrace ==
    \/ TraceOnRequest
    \/ TraceOnResponse
    \/ FlushTraceBuffer

SpecTrace == InitTraceSpec /\ [][NextTrace]_vars

\* The ingestion loop on a chat of image, file and application messages,
\* with AUTO_DOWNLOAD on or off.
InitMedia ==
    /\ InitCore
    /\ InitRestored
    /\ auto_download \in BOOLEAN
    /\ plugins_dir = EmptyDir
    /\ engine = FreshEngine
    /\ inbox = {"i1", "f1", "a1"}
    /\ outPool = <<>>

SpecMedia == InitMedia /\ [][NextIngest]_vars

\* The ingestion loop with auto-download on two file messages that carry
\* the same file name.
InitPaths ==
    /\ InitCore
    /\ InitRestored
    /\ auto_download = TRUE
    /\ plugins_dir = EmptyDir
    /\ engine = FreshEngine
    /\ inbox = {"f1", "f2"}
    /\ outPool = <<>>

SpecPaths == InitPaths /\ [][NextIngest]_vars

\* The pacing of the ingestion loop.
InitPaceSpec ==
    /\ InitCommon
    /\ InitRestored
    /\ inbox = {}
    /\ outPool = <<>>

NextPace == ListenerTick

SpecPace == InitPaceSpec /\ [][NextPace]_vars

\* The plugin loader: the start, reloads and changes of the directory.
InitPlugins ==
    /\ InitCore
    /\ auto_download = TRUE
    /\ plugins_dir \in Dirs \cup {NoDir}
    /\ engine = FreshEngine
    /\ InitRestored
    /\ inbox = {}
    /\ outPool = <<>>

NextPlugins ==
    \/ ProcessorStart
    \/ ReloadAll
    \/ EditPlugins

SpecPlugins == InitPlugins /\ [][NextPlugins]_vars

\* The loader with the registry the plugins fill.
NextReload ==
    \/ LoaderStart
    \/ LoaderReloadAll
    \/ EditPlugins

SpecReload == InitPlugins /\ [][NextReload]_vars

\* The session round trip, from any session of a running engine.
InitRound ==
    /\ InitCore
    /\ auto_download = TRUE
    /\ plugins_dir = EmptyDir
    /\ engine \in Sessions
    /\ InitRestored
    /\ inbox = {}
    /\ outPool = <<>>

NextRound ==
    \/ SaveSession
    \/ RestartEngine
    \/ SaveRestarted

SpecRound == InitRound /\ [][NextRound]_vars

\* The handler registry and the dispatcher.
InitChain ==
    /\ InitCommon
    /\ InitRestored
    /\ inbox = {}
    /\ outPool = <<>>

NextChain ==
    \/ \E priority \in Priorities, result \in HandlerResults :
           OnMessage(priority, result)
    \/ GetMessageHandlers
    \/ ClearRegistry
    \/ \E cmd \in CommandNames, cmd_result \in CommandResults,
          chat \in BOOLEAN :
           DispatchText(cmd, cmd_result, chat) /\ UNCHANGED dispatchObs

SpecChain == InitChain /\ [][NextChain]_vars

\* The dispatcher called by the ingestion loop, the API and the task runs,
\* with the chat mode switched on and off.
NextChat ==
    \/ \E priority \in Priorities, result \in HandlerResults :
           OnMessage(priority, result)
    \/ \E enabled \in BOOLEAN : SetChatMode(enabled)
    \/ \E source \in DispatchSources, cmd \in CommandNames,
          cmd_result \in CommandResults :
           DispatchFrom(source, cmd, cmd_result)

SpecChat == InitChain /\ [][NextChat]_vars

\* The sends of the HTTP handlers and of the scheduler, on a restored
\* session.
InitLock ==
    /\ InitCommon
    /\ InitRestored
    /\ inbox = {}
    /\ outPool = <<"s1", "s2">>

NextLock ==
    \/ \E c \in Callers : SendTextCall(c)
    \/ \E c \in Callers : SendTextPost(c)
    \/ \E c \in Callers : SendTextReturn(c)
    \/ \E c \in Callers, file_size \in FileSizes : SendFileCall(c, file_size)
    \/ \E c \in Callers : SendFileUploaded(c)
    \/ \E c \in Callers : SendFileReturn(c)

SpecLock == InitLock /\ [][NextLock]_vars

\* Text sends of the HTTP handlers and of the scheduler beside the
\* ingestion loop, on a restored session and an empty chat.
InitEcho ==
    /\ InitCommon
    /\ InitRestored
    /\ inbox = {}
    /\ outPool = <<"s1">>

NextEcho ==
    \/ \E c \in Callers : SendTextCall(c)
    \/ \E c \in Callers : SendTextPost(c)
    \/ \E c \in Callers : SendTextReturn(c)
    \/ L_Login
    \/ L_Enter
    \/ L_Fetch
    \/ L_Msg
    \/ L_End

SpecEcho == InitEcho /\ [][NextEcho]_vars

\* The ingestion loop over a chat with a message of blank id and blank
\* text, a text message whose text is that of the replies, and an image.
InitSkip ==
    /\ InitCommon
    /\ InitRestored
    /\ inbox = {"  ", "m2", "i1"}
    /\ outPool = <<>>

SpecSkip == InitSkip /\ [][NextIngest]_vars

\* process(msg) and the reply, for messages of every kind.
InitProc ==
    /\ InitCommon
    /\ InitRestored
    /\ inbox = {}
    /\ outPool = <<>>

NextProc ==
    \/ \E has_id, url \in BOOLEAN, text \in ProcTexts :
           P_Start(has_id, text, url)
    \/ \E raises \in BOOLEAN : P_Save(raises)
    \/ \E max_raises, post_raises \in BOOLEAN : P_Push(max_raises, post_raises)
    \/ \E replies \in BOOLEAN : P_Dispatch(replies)
    \/ P_Reply

SpecProc == InitProc /\ [][NextProc]_vars

\* The bounded containers under insertions.
InitLim ==
    /\ InitCommon
    /\ InitRestored
    /\ inbox = {}
    /\ outPool = <<>>

NextLim ==
    \/ \E msg_id \in LimitedIds : NormalizeAdds(msg_id)
    \/ \E msg_id \in LimitedIds : SendAdds(msg_id)
    \/ \E n \in 1..LatestLimit : BatchFetched(n)
    \/ \E unique_key \in LimitedIds, raises \in BOOLEAN :
           BatchKey(unique_key, raises)
    \/ BatchEnd

SpecLim == InitLim /\ [][NextLim]_vars

C3_OncePerCalendarDay == ~ranAgain

\* C4, as stated: skey, sid, uin and pass_ticket are all non-empty or all
\* empty.
C4_TokensAllOrNone ==
    HasAuth \/ (skey = "" /\ sid = "" /\ uin = "" /\ pass_ticket = "")

\* C5, as stated: check_login_status returns true on a login poll with code
\* 200 only if the poll had a redirect URI, newloginpage gave the four
\* tokens and webwxinit succeeded.
C5_LoginOnlyWhenComplete ==
    (pollObs.code = 200 /\ pollObs.ret = "true")
        => (pollObs.redirect /\ pollObs.complete /\ pollObs.init)

\* C6, as stated: a send endpoint called after a sync-check has answered
\* loginout, and before a login has succeeded, answers 401 and makes no
\* upstream request.
C6_UnauthorizedAfterLoginout ==
    lastReply.lost => (lastReply.code = 401 /\ ~lastReply.upstream)

\* C7: when the sync-check of a heartbeat tick answers loginout,
\* is_logged_in becomes false and the reconnect counter grows by one; with
\* the counter within MAX_RECONNECT_ATTEMPTS the heartbeat goes on to the
\* delay, after the delay it reloads the session file and nothing else, and
\* after the reload it runs check_login_status(poll=True).
C7_HeartbeatReconnect ==
    [][/\ hbStatus' # "none" => hpc = "synccheck"
       /\ hbStatus' = "loginout" =>
             /\ ~is_logged_in'
             /\ reconnect_attempts' = reconnect_attempts + 1
             /\ hpc' = IF reconnect_attempts' <= MAX_RECONNECT_ATTEMPTS
                       THEN "delay" ELSE "sleep"
       /\ (hpc = "delay" /\ hpc' # "delay") =>
             /\ hpc' = "relogin"
             /\ attempt' = "none"
             /\ state_file # NoFile =>
                   /\ <<skey', sid', uin', pass_ticket'>> =
                        <<state_file.skey, state_file.sid, state_file.uin,
                          state_file.pass_ticket>>
                   /\ uuid' = state_file.uuid
       /\ (hpc = "relogin" /\ hpc' # "relogin") =>
             (attempt' = "heartbeat" /\ hpc' = "sleep")
       /\ attempt' = "heartbeat" => hpc = "relogin"]_vars

\* C7, the case: the heartbeat has made its reconnect attempt after a
\* loginout that left the counter within MAX_RECONNECT_ATTEMPTS.
C7_Witness ==
    /\ attempt = "heartbeat"
    /\ reconnect_attempts >= 1
    /\ reconnect_attempts <= MAX_RECONNECT_ATTEMPTS

\* C8, as stated: with the reconnect counter above MAX_RECONNECT_ATTEMPTS no
\* background loop runs check_login_status(poll=True).
C8_NoAttemptAfterMax ==
    reconnect_attempts > MAX_RECONNECT_ATTEMPTS => attempt = "none"

\* C9, as stated: the scheduler loop does not end by an exception.
C9_SchedulerNeverDies == spc # "dead"

\* C10, as stated: when the loop dispatches a for the first time, no b that
\* follows a in the last AddMsgList has been dispatched in the tick.
C10_BatchOrder ==
    [][(dispKey' # "" /\ ~dispAgain') =>
          \A i, j \in 1..Len(lastBatch) :
             (i < j /\ lastBatch[i] = dispKey')
                 => lastBatch[j] \notin tickDispatched]_vars

\* C11, as stated: get_updates(offset=k, limit=n) answers only rows with a
\* row id above k, in strictly ascending order of row id, and at most
\* min(n, 1000) of them (the cap is UpdatesCap here; for a negative n the
\* bound is read as no row at all).
C11_GetUpdatesBounded ==
    db_out.called =>
        /\ \A i \in 1..Len(db_out.rows) : db_out.rows[i] > db_out.offset
        /\ \A i, j \in 1..Len(db_out.rows) :
               i < j => db_out.rows[i] < db_out.rows[j]
        /\ Len(db_out.rows) <= Min(db_out.limit, UpdatesCap) \/ db_out.rows = <<>>

\* C12: each message id is in at most one row of the messages table, and
\* the row id save_message returns is above every row id it returned
\* before, whatever the sweeps have deleted in between.
C12_UniqueAndIncreasing ==
    [][/\ \A r1, r2 \in db_messages' :
             r1.msg_id = r2.msg_id => r1 = r2
       /\ db_saved' # 0 =>
             /\ \A i \in db_assigned : db_saved' > i
             /\ \E r \in db_messages' : r.id = db_saved'
       ]_vars

\* a save after the row with the largest row id so far has left the table
\* (swept, or replaced by the save itself)
C12_Witness ==
    /\ db_saved # 0
    /\ \E i \in db_assigned :
           /\ i < db_saved
           /\ i \notin IdsOf(db_messages)
           /\ \A r \in db_messages : r.id <= i \/ r.id = db_saved

\* C13, as stated: in every row of the trace file the cookie, set-cookie
\* and authorization headers are '***' and no value of a sensitive
\* parameter, given URL-style or JSON-style, is left in the URL, the
\* headers or the body preview.
C13_NoSecretInTrace ==
    \A i \in 1..Len(trace_file) :
        LET row == trace_file[i]
        IN /\ \A h \in DOMAIN row.headers \cap SensitiveHeaders :
                  row.headers[h] = <<Redacted>>
           /\ Range(row.url) \cap Secrets = {}
           /\ Range(row.body_preview) \cap Secrets = {}
           /\ \A h \in DOMAIN row.headers :
                  Range(row.headers[h]) \cap Secrets = {}

\* C14, as stated: for a file of 25 MiB or more, the boundary included,
\* send_file returns false and no upload or send request goes upstream.
C14_LargeFileRefused ==
    lastReply.size >= FileSizeLimit =>
        (lastReply.code # 200 /\ ~lastReply.upstream)

\* C15: when AUTO_DOWNLOAD is on and download_message_content returned
\* true for the message a step hands to the dispatcher, the files table
\* holds, at that hand-over, a row for the message's id with a non-empty
\* local path.
C15_FileRowBeforeDispatch ==
    [][(dispKey' # "" /\ dlOk') =>
          /\ auto_download
          /\ \E row \in db_files' :
                 /\ row.msg_id = dispKey'
                 /\ row.file_path # <<>>
                 /\ row.file_path[Len(row.file_path)] # NoName
      ]_vars

\* an image or file message is dispatched after its download succeeded
C15_Witness == dispKey \in MediaIds /\ dlOk /\ auto_download

\* C16, as stated: the poll interval is always within [0.5 s, 3.0 s]; after
\* a tick that processed a message it is 0.5 s, after a tick that
\* processed none it is min(previous * 1.2, 3.0 s).
C16_PollInterval ==
    [][nTicks' # nTicks =>
          /\ poll_interval' >= min_interval
          /\ poll_interval' <= max_interval
          /\ paceObs'.had => poll_interval' = min_interval
          /\ ~paceObs'.had =>
                poll_interval' = Min(Times12(poll_interval), max_interval)
      ]_vars

\* C16, amended: the poll interval is always within [0.5 s, 3.0 s]; a tick
\* whose body raised leaves it at 3.0 s whatever it processed; a tick that
\* ended without exception leaves it at 0.5 s if it processed a message and
\* at min(previous * 1.2, 3.0 s) if not, so that it is 3.0 s after ten such
\* empty ticks in a row.
C16_PollIntervalUnlessRaised ==
    [][nTicks' # nTicks =>
          /\ poll_interval' >= min_interval
          /\ poll_interval' <= max_interval
          /\ paceObs'.raised => poll_interval' = max_interval
          /\ (~paceObs'.raised /\ paceObs'.had) =>
                poll_interval' = min_interval
          /\ (~paceObs'.raised /\ ~paceObs'.had) =>
                poll_interval' = Min(Times12(poll_interval), max_interval)
          /\ emptyRun' >= EmptyTicksToMax => poll_interval' = max_interval
      ]_vars

\* the interval has grown from 0.5 s to 3.0 s over ten empty ticks
C16_Witness ==
    /\ emptyRun = EmptyTicksToMax
    /\ poll_interval = max_interval
    /\ nTicks = EmptyTicksToMax + 1

\* C17: a login poll answered 408 or 201 leaves the UUID in place and the
\* engine not logged in; one answered 400, 500 or 0 clears the UUID, and
\* the next QR request that is answered, made with the UUID cleared,
\* acquires a fresh UUID; a step that polled ends logged in only on code
\* 200, and without the four tokens held the engine becomes logged in only
\* on code 200.
C17_LoginPollCodes ==
    [][/\ (pollObs'.answered /\ pollObs'.code \in {408, 201}) =>
             /\ pollObs'.uuid = uuid
             /\ uuid # ""
             /\ ~is_logged_in'
       /\ (pollObs'.answered /\ pollObs'.code \in ExpiryCodes) =>
             /\ pollObs'.uuid = ""
             /\ ~is_logged_in'
       /\ (/\ uuid = ""
           /\ uuid_dead # {}
           /\ lastReply'.endpoint = "qr"
           /\ lastReply'.code = 200) =>
             /\ uuid_issued' = uuid_issued + 1
             /\ uuid' = UuidOf(uuid_issued')
       /\ (pollObs'.code # -1 /\ is_logged_in') => pollObs'.code = 200
       /\ (~HasAuth /\ ~is_logged_in /\ is_logged_in') => pollObs'.code = 200
      ]_vars

\* C18, as stated: after load_all, every plugin of the directory whose
\* import does not raise is loaded, and every plugin whose import raises
\* is listed in get_status().errors and is not among the loaded plugins.
C18_FailingPluginsIsolated ==
    [][loadCalled' =>
          LET status == GetStatus(loaded_plugins', load_errors')
          IN  \A q \in SeqToSet(PluginsToLoad(plugins_dir')) :
                IF OutcomeOf(plugins_dir', q) = "ok"
                THEN q.name \in status.loaded_plugins
                ELSE /\ FileOf(q) \in status.errors
                     /\ q.name \notin status.loaded_plugins
      ]_vars

\* C18 for the exceptions that "except Exception" catches: when every
\* exception raised by an import is derived from Exception, load_all
\* returns, every other plugin is loaded, and every failing plugin is listed
\* in get_status().errors and is not among the loaded plugins.
C18_ExceptionsIsolated ==
    [][(/\ loadCalled'
        /\ \A q \in SeqToSet(PluginsToLoad(plugins_dir')) :
              OutcomeOf(plugins_dir', q) # "exit") =>
          LET status == GetStatus(loaded_plugins', load_errors')
          IN  /\ loader_pc' = "running"
              /\ \A q \in SeqToSet(PluginsToLoad(plugins_dir')) :
                   IF OutcomeOf(plugins_dir', q) = "ok"
                   THEN q.name \in status.loaded_plugins
                   ELSE /\ FileOf(q) \in status.errors
                        /\ q.name \notin status.loaded_plugins
      ]_vars

\* load_all has returned over a directory whose first plugin raises and
\* whose second loads
C18_Witness ==
    /\ loadCalled
    /\ loader_pc = "running"
    /\ plugins_dir # NoDir
    /\ plugins_dir["a"].pkg = "raise"
    /\ plugins_dir["b"] = [pkg |-> "none", file |-> "ok"]
    /\ GetStatus(loaded_plugins, load_errors) =
          [loaded_plugins |-> {"b"}, errors |-> {"a/__init__.py"}]

RangeOf(s) == {s[i] : i \in 1..Len(s)}

\* C19, as stated: after add_task(t, c) list_tasks() holds a task with
\* time_hm = t and command_text = c; after delete_task(id) of a task of the
\* table, list_tasks() holds no task with that id and holds every other
\* task as it was.
C19_AddThenListed ==
    [][/\ taskObs'.op = "add" =>
             \E e \in RangeOf(ListTasks(tasks')) :
                /\ e.time_hm = taskObs'.time_hm
                /\ e.command_text = taskObs'.command_text
       /\ taskObs'.op = "delete" =>
             /\ \A e \in RangeOf(ListTasks(tasks')) :
                   e.task_id # taskObs'.task_id
             /\ \A e \in RangeOf(ListTasks(tasks)) :
                   e.task_id # taskObs'.task_id =>
                      e \in RangeOf(ListTasks(tasks'))
             /\ Len(ListTasks(tasks')) = Len(ListTasks(tasks)) - 1
      ]_vars

\* C19, amended: after add_task(t, c) list_tasks() holds a task with
\* time_hm = t and command_text = c stripped of its surrounding white
\* space; after delete_task(id) of a task of the table, list_tasks() holds
\* no task with that id and holds every other task as it was.
C19_AddStrippedThenListed ==
    [][/\ taskObs'.op = "add" =>
             \E e \in RangeOf(ListTasks(tasks')) :
                /\ e.task_id = taskObs'.task_id
                /\ e.time_hm = taskObs'.time_hm
                /\ e.command_text = Strip(taskObs'.command_text)
       /\ taskObs'.op = "delete" =>
             /\ \A e \in RangeOf(ListTasks(tasks')) :
                   e.task_id # taskObs'.task_id
             /\ \A e \in RangeOf(ListTasks(tasks)) :
                   e.task_id # taskObs'.task_id =>
                      e \in RangeOf(ListTasks(tasks'))
             /\ Len(ListTasks(tasks')) = Len(ListTasks(tasks)) - 1
      ]_vars

\* a padded command has been added beside another task, and is listed
\* without its padding
C19_Witness ==
    /\ taskObs.op = "add"
    /\ taskObs.command_text = " /ping "
    /\ Len(ListTasks(tasks)) = 2
    /\ \E e \in RangeOf(ListTasks(tasks)) :
          e.task_id = taskObs.task_id /\ e.command_text = "/ping"

\* the cookies of a jar by name, value, domain and path
CookieSet(jar) ==
    {<<jar[i].name, jar[i].value, jar[i].domain, jar[i].path>> :
        i \in 1..Len(jar)}

\* a session document without the expires fields of its cookies
WithoutExpires(doc) ==
    [doc EXCEPT !.cookies =
        [i \in 1..Len(doc.cookies) |->
            [doc.cookies[i] EXCEPT !.expires = NoExpiry]]]

\* C20: the engine started on a saved session holds the entry host, device
\* id, UUID, skey, sid, uin, pass_ticket, user name and sync cursor of the
\* engine that saved it, and the same cookies by name, value, domain and
\* path; the document it saves is the saved one apart from the expires
\* fields.
C20_SessionRoundTrip ==
    /\ session_pc \in {"restarted", "resaved"} =>
          /\ restarted.entry_host = engine.entry_host
          /\ restarted.device_id = engine.device_id
          /\ restarted.uuid = engine.uuid
          /\ restarted.skey = engine.skey
          /\ restarted.sid = engine.sid
          /\ restarted.uin = engine.uin
          /\ restarted.pass_ticket = engine.pass_ticket
          /\ restarted.user_name = engine.user_name
          /\ restarted.synckey = engine.synckey
          /\ CookieSet(restarted.jar) = CookieSet(engine.jar)
          /\ Len(restarted.jar) = Len(engine.jar)
    /\ session_pc = "resaved" =>
          WithoutExpires(session_doc2) = WithoutExpires(session_doc)

\* a logged-in session with three cookies, one of them with an expiry, has
\* been saved, loaded and saved again, and the two documents differ
C20_Witness ==
    /\ session_pc = "resaved"
    /\ engine.skey = "tok"
    /\ engine.uuid = "u1"
    /\ engine.entry_host # FreshEngine.entry_host
    /\ Len(engine.jar) = MaxCookies
    /\ session_doc2 # session_doc

NonIncreasing(chain) ==
    \A i, j \in 1..Len(chain) :
        i < j => chain[i].priority >= chain[j].priority

NamesOf(chain) == [i \in 1..Len(chain) |-> chain[i].name]

IsPrefix(a, b) == Len(a) <= Len(b) /\ a = SubSeq(b, 1, Len(a))

\* C21: after any registrations, get_message_handlers returns every
\* registered handler in non-increasing order of priority, and the
\* dispatcher awaits the handlers in the order of that list.
C21_ChainByPriority ==
    chainObs.op \in {"get", "dispatch"} =>
        /\ {chainObs.chain[i].name : i \in 1..Len(chainObs.chain)}
               = {HandlerName(n) : n \in 1..Len(message_handlers)}
        /\ Len(chainObs.chain) = Len(message_handlers)
        /\ NonIncreasing(chainObs.chain)
        /\ IsPrefix(chainObs.invoked, NamesOf(chainObs.chain))

\* the position of the first handler of the chain whose result is outside
\* the given values, or 0
FirstOutside(chain, values) ==
    LET hits == {i \in 1..Len(chain) : chain[i].result \notin values}
    IN  IF hits = {} THEN 0
        ELSE CHOOSE i \in hits : \A j \in hits : i <= j

\* the chain of a dispatch where the handlers that continue the chain are
\* those whose result is one of the given values
ChainRule(continues) ==
    LET chain == chainObs.chain
        k == FirstOutside(chain, continues)
    IN  IF k = 0
        THEN /\ chainObs.invoked = NamesOf(chain)
             /\ chainObs.looked_up
        ELSE /\ chainObs.invoked = SubSeq(NamesOf(chain), 1, k)
             /\ chainObs.reply = chain[k].result
             /\ ~chainObs.looked_up

\* C22, as stated: the reply of the chain is the first non-empty value a
\* handler returns, in chain order, and no later handler is run; a handler
\* that returns nothing or an empty value, or that raises, does not stop
\* the chain; the command is looked up only if no handler replied.
C22_FirstNonEmptyReplies ==
    chainObs.op = "dispatch" =>
        ChainRule({NoneValue, "", RaisesException, RaisesBaseException})

\* C22, amended: the reply of the chain is the first value other than None
\* a handler returns, the empty string included, and no later handler is
\* run; a handler that returns None or raises an Exception does not stop
\* the chain; the command is looked up only if no handler replied; an
\* exception outside Exception ends the dispatch at that handler, with no
\* reply and no lookup.
C22_FirstNonNoneReplies ==
    chainObs.op = "dispatch" =>
        LET chain == chainObs.chain
            k == FirstOutside(chain, {NoneValue, RaisesException})
        IN  IF k # 0 /\ chain[k].result = RaisesBaseException
            THEN /\ chainObs.invoked = SubSeq(NamesOf(chain), 1, k)
                 /\ chainObs.aborted
                 /\ chainObs.reply = NoneValue
                 /\ ~chainObs.looked_up
            ELSE /\ ChainRule({NoneValue, RaisesException})
                 /\ ~chainObs.aborted

\* a dispatch over three handlers: the first raises, the second returns
\* the empty string, which is the reply, and the third, which would return
\* a text, is not run; the command is not looked up
C22_Witness ==
    /\ chainObs.op = "dispatch"
    /\ Len(chainObs.chain) = MaxHandlers
    /\ chainObs.chain[1].result = RaisesException
    /\ chainObs.chain[2].result = ""
    /\ chainObs.chain[3].result = "hi"
    /\ chainObs.invoked = <<chainObs.chain[1].name, chainObs.chain[2].name>>
    /\ chainObs.reply = ""
    /\ ~chainObs.looked_up

\* C23: a step whose sync-check fails at transport level (the answer is
\* "resync") while the engine is logged in leaves is_logged_in, the
\* tokens and the message caches as they were, whichever operation issued
\* the sync-check: get_latest_messages, check_login_status(poll=True) or
\* the heartbeat.
C23_ResyncChangesNothing ==
    [][(is_logged_in /\ syncStatus' = "resync") =>
           /\ is_logged_in' = is_logged_in
           /\ UNCHANGED tokenVars
           /\ UNCHANGED cacheVars]_vars

\* C24: whenever the login is restored after a loginout, by the reconnect
\* attempt of the heartbeat or by the ingestion loop, the reconnect counter
\* is 0 afterwards.
C24_CounterResetOnRestore ==
    [][(/\ authLost
        /\ ~is_logged_in
        /\ is_logged_in'
        /\ attempt' \in {"heartbeat", "listener"}) =>
           reconnect_attempts' = 0]_vars

\* C25: at most one upstream send operation is in flight at any time:
\* of the callers of send_text and send_file, at most one awaits the
\* response to a request it has sent upstream.
C25_OneSendInFlight == Cardinality(InFlight) <= 1

\* C26: the echo of a message is not dispatched while the send of that
\* message still awaits its upstream response.
C26_EchoInFlightNotDispatched ==
    [][\A c \in Callers :
          (send_pc[c] \in {"post", "filepost"} /\ send_id[c] # "") =>
              dispKey' # send_id[c]]_vars

\* the slice get_latest_messages(limit=12) returns of a cache
LatestSlice(cache) == Range(LastN(cache, LatestLimit))

\* C27: every message the engine has normalised is handed to the
\* dispatcher by the ingestion loop, however many messages arrive: a
\* message of the slice that get_latest_messages returns stays in that
\* slice until the loop has dispatched its key, since the loop sees no
\* other messages.
C27_KeptUntilDispatched ==
    [][\A msg \in LatestSlice(msg_cache) :
          (UniqueKey(msg) # "" /\ UniqueKey(msg) \notin dispatched') =>
              msg \in LatestSlice(msg_cache')]_vars

\* C28: when a task has been added or deleted while the tick awaits a
\* task run, the tick still completes and the scheduler loop goes on: the
\* step that resumes the for statement does not end the loop.
C28_TickSurvivesTaskChange ==
    [][(spc = "run" /\ Used(tasks) # itUsed) => spc' # "dead"]_vars

\* C29: an enabled task that has not run today is run by a tick within
\* the minute of its time_hm, even when other due tasks take long to run:
\* when the clock leaves a minute that has passed while the scheduler was
\* busy with one tick, started before that minute on the task table as it
\* is now, every enabled task of that minute other than the one being
\* awaited has been run on that day.
C29_DueTaskNotMissed ==
    [][(/\ clock' # clock
        /\ spc = "run"
        /\ <<today, hm>> # <<Day(clock), Hm(clock)>>
        /\ Len(tasks) = itUsed) =>
           \A i \in 1..Len(tasks) :
              (/\ i # held
               /\ tasks[i].live
               /\ tasks[i].enabled
               /\ tasks[i].time_hm = Hm(clock)) =>
                  <<tasks[i].task_id, Day(clock)>> \in ran]_vars

\* the message of the iteration the loop is at is skipped: its key is
\* empty or already processed, or its text is in the recent-reply ring
IterSkips ==
    LET msg == Head(messages)
    IN  \/ UniqueKey(msg) = ""
        \/ UniqueKey(msg) \in processed_set
        \/ Strip(msg.text) # "" /\ Strip(msg.text) \in Range(sent_buffer)

\* an iteration that skips its message downloads nothing, records no file
\* and sends no reply, and process() is not called
IterLeavesAlone ==
    /\ dispKey' = ""
    /\ dispatched' = dispatched
    /\ ~dlOk'
    /\ db_files' = db_files
    /\ UNCHANGED sendVars
    /\ sent_buffer' = sent_buffer
    /\ messages' = Tail(messages)

At(events) == {i \in 1..Len(proc_log) : proc_log[i] \in events}

Before(a, b) == \A i \in At(a), j \in At(b) : i < j

\* C31: for a dispatched message the order is: persist, push to the
\* webhook, handler chain and command lookup, then the reply; and a
\* failure of the persistence or of the push does not prevent the
\* dispatch: a call of process on a message with a text ends after
\* _dispatch_text has run.
C31_ProcessOrder ==
    /\ Before({"persist", "persist_failed"}, {"push", "push_failed", "raise"})
    /\ Before({"push", "push_failed"}, {"dispatch"})
    /\ Before({"persist", "persist_failed"}, {"dispatch"})
    /\ Before({"dispatch"}, {"send"})
    /\ (proc_msg.text = "hi" /\ proc_pc \in {"reply", "done", "raised"}) =>
           At({"dispatch"}) # {}

\* every value of the queue is in the container, for the four of them
QueuesWithin ==
    /\ Range(seen_msg_ids_order) \subseteq seen_msg_ids
    /\ Range(send_msg_ids_order) \subseteq send_msg_ids
    /\ Range(raw_by_id_order) \subseteq DOMAIN raw_by_id
    /\ Range(processed_order) \subseteq processed_set

\* a container that has just been cut back holds its queue's values
PrunedToQueue ==
    /\ "seen" \in pruned => seen_msg_ids = Range(seen_msg_ids_order)
    /\ "send" \in pruned => send_msg_ids = Range(send_msg_ids_order)
    /\ "raw" \in pruned => DOMAIN raw_by_id = Range(raw_by_id_order)
    /\ "processed" \in pruned => processed_set = Range(processed_order)

EngineWithinCap ==
    /\ Cardinality(seen_msg_ids) <= SeenCap + Slack
    /\ Cardinality(send_msg_ids) <= SendCap + Slack
    /\ Cardinality(DOMAIN raw_by_id) <= RawCap + Slack

C33_FailedSendCommitsNothing ==
    [][(lastReply'.endpoint \in {"send_message", "send_document"}
        /\ lastReply'.code = 0) =>
           /\ send_msg_ids' = send_msg_ids
           /\ send_msg_ids_order' = send_msg_ids_order
           /\ SentRows(db_messages') = SentRows(db_messages)]_vars

\* C34: a client polling with auto_offset gets every stored update once:
\* no update id is returned twice, and no stored update is left behind the
\* offset (where no later poll looks) without having been returned.
C34_EveryUpdateOnce ==
    /\ \A i, j \in 1..Len(sdk_received) :
           i # j => sdk_received[i] # sdk_received[j]
    /\ \A r \in db_messages :
           r.id <= sdk_offset => r.id \in Range(sdk_received)

\* C35: the files recorded for distinct messages are at distinct paths.
C35_DistinctPaths ==
    \A r1, r2 \in db_files :
        r1.msg_id # r2.msg_id => r1.file_path # r2.file_path

\* C36: an add_task call that returns adds a task to the ones held: it
\* never replaces one, whatever the instants of the calls.
C36_AddNeverReplaces ==
    [][taskObs'.op = "add" => Used(tasks') = Used(tasks) + 1]_vars

\* C38: every task held has a time_hm of the form HH:MM with HH in 00..23
\* and MM in 00..59, and an add_task call with another text raises and
\* leaves the tasks and the task file as they were.
C38_TimeWellFormed ==
    /\ \A i \in 1..Len(tasks) : tasks[i].live => IsHourMinute(tasks[i].time_hm)
    /\ taskObs.op \in {"add", "add_unsaved"} => IsHourMinute(taskObs.time_hm)

\* the task of the table with the id of the last task operation
ObservedTasks == {i \in 1..Len(tasks) : /\ tasks[i].live
                                        /\ tasks[i].task_id = taskObs.task_id}

ChatInvoked == chainObs.op = "dispatch" /\ chainObs.reply = "chat"

LoadedNames == {q.name : q \in loaded_plugins}


\* the names of the modules that have a handler in the chain
HandlerOwners == {message_handlers[i].name : i \in 1..Len(message_handlers)}

\* C40: when reload_all has returned, the registry holds the commands,
\* routes, hooks and handlers of the plugins that were loaded in it, each
\* once, and nothing else; and a reload that follows a load of the same
\* directory leaves the registry and the status as the load left them.
C40_RegistryOfLoaded ==
    [][(loader_pc = "running" /\ loadCalled' /\ loader_pc' = "running") =>
          /\ registered' = RegistrationsOf(LoadedNames')
          /\ HandlerOwners' = LoadedNames'
          /\ Len(message_handlers') = Cardinality(LoadedNames')
          /\ loadCalled =>
                 /\ registered' = registered
                 /\ message_handlers' = message_handlers
                 /\ GetStatus(loaded_plugins', load_errors')
                        = GetStatus(loaded_plugins, load_errors)]_vars

====
